---- MODULE Spec2Model ----
(***************************************************************************)
(* DocIQ: structured field extraction from scanned documents.              *)
(*                                                                         *)
(* The module models, from the Python sources under doc_pipeline/:         *)
(*   - the schema validators of config/doc_config.py (with the receipt     *)
(*     discrepancy detector they contain),                                 *)
(*   - the retry loop of llm/gemini_client.extract_fields_from_text,       *)
(*   - the resume cascade extractors/resume.parse_resume and its phone     *)
(*     plausibility check is_valid_phone_number,                           *)
(*   - the deterministic receipt pass parsers/receipt_parser.parse_receipt,*)
(*   - the batch drivers pipeline/*_pipeline.process_documents with the    *)
(*     gates of utils/validators.py, and the process command of cli.py,    *)
(*   - extract_items of the deterministic receipt pass, line by line,      *)
(* and, from dociq-ui/backend/main.py, the HTTP backend: the upload,       *)
(* delete, process and retry handlers and the background processing task.  *)
(*                                                                         *)
(* Each subsystem has its own variables and its own specification; a       *)
(* specification leaves the other subsystems' variables idle.              *)
(***************************************************************************)
EXTENDS Integers, Sequences, FiniteSets, TLC

VARIABLES
    vDocType,   \* validators: the document type whose validator is called
    vData,      \* validators: the object `data`, the caller's input mapping
    vOut,       \* validators: the outcome of the call (return value or raise)
    vPc,        \* validators: "call" before the call, "done" after it
    rRetryTest, \* extract_fields_from_text: whether `text` contains "RETRY_TEST"
    rDocType,   \* extract_fields_from_text: the doc_type argument
    rPc,        \* extract_fields_from_text: "entry", "call", "sleep", "returned", "raised"
    attempt,    \* extract_fields_from_text: the loop variable `attempt`
    rLog,       \* extract_fields_from_text: the model calls and sleeps made, in order
    rOut,       \* extract_fields_from_text: the outcome of the call
    phInput,    \* is_valid_phone_number: the argument
    phoneValid, \* is_valid_phone_number: the value returned
    phPc,       \* is_valid_phone_number: "call" before the call, "done" after it
    result,        \* parse_resume: the local `result`
    regex_result,  \* parse_resume: what fast_regex_resume_parse returned
    gemini_result, \* parse_resume: what call_gemini_resume_extraction returned (None: not called)
    geminiCalls,   \* parse_resume: the calls of call_gemini_resume_extraction made
    resumeOut,     \* parse_resume: the outcome of the call
    resumePc,      \* parse_resume: "start", "checked", "done"
    parseText,  \* receipt_parser.parse_receipt: what `text` holds for each field extractor
    parseFields,\* receipt_parser.parse_receipt: the entries of the dict display evaluated so far
    parseOut,   \* receipt_parser.parse_receipt: the outcome of the call
    parsePc,    \* receipt_parser.parse_receipt: the extractor called next, "returned", "raised"
    mode,       \* cli.process: the --mode option
    test_mode,  \* process_documents: the test_mode argument (--test)
    dirFiles,   \* process_documents: the number of supported files in input_dir
    total,      \* process_documents: total = len(files)
    fileIdx,    \* process_documents: the position in `files` of the file processed next
    success,    \* process_documents: success (processed in the resume driver)
    failed,     \* process_documents: failed (errors in the resume driver)
    skipped,    \* process_documents: skipped (resume driver only)
    gemini_fallback, \* process_documents: gemini_fallback
    fileLog,    \* what was done with each file processed so far, in order
    results,    \* the summary process_documents returned
    exitCode,   \* cli.process: the exit code, -1 while running
    batchPc,    \* "cli", "loop", "returned", "exited"; "single", "single_done"
    now,                \* backend: the clock, in seconds
    PIPELINE_AVAILABLE, \* backend: whether the pipelines could be built at import
    documents_db,       \* backend: documents_db, the record of each file id
    uploadDir,          \* backend: the files in UPLOAD_DIR
    outputDir,          \* backend: the ids with a file {id}.json in OUTPUT_DIR
    tasks,              \* backend: the background tasks that run or have run
    uploadLog,          \* backend: the file ids POST /upload answered, in order
    deleted,            \* backend: the ids DELETE removed and no later upload was given
    restarted,          \* backend: the ids POST /process or POST /retry answered success for
    lines,      \* extract_items: the lines of the text, each a sequence of tokens
    lineIdx,    \* extract_items: the position in `lines` of the line processed next
    itemList,   \* extract_items: `items`, each item with the line it was built from
    quantity,   \* extract_items: the local `quantity`
    itemsOut    \* extract_items: the outcome of the call

valVars == <<vDocType, vData, vOut, vPc>>

retryVars == <<rRetryTest, rDocType, rPc, attempt, rLog, rOut>>

phoneVars == <<phInput, phoneValid, phPc>>

resumeVars == <<result, regex_result, gemini_result, geminiCalls, resumeOut, resumePc>>

parseVars == <<parseText, parseFields, parseOut, parsePc>>

batchVars ==
    <<mode, test_mode, dirFiles, total, fileIdx, success, failed, skipped, gemini_fallback,
      fileLog, results, exitCode, batchPc>>

backendVars ==
    <<now, PIPELINE_AVAILABLE, documents_db, uploadDir, outputDir, tasks, uploadLog, deleted,
      restarted>>

itemVars == <<lines, lineIdx, itemList, quantity, itemsOut>>

vars ==
    <<vDocType, vData, vOut, vPc, rRetryTest, rDocType, rPc, attempt, rLog, rOut,
      phInput, phoneValid, phPc,
      result, regex_result, gemini_result, geminiCalls, resumeOut, resumePc,
      parseText, parseFields, parseOut, parsePc,
      mode, test_mode, dirFiles, total, fileIdx, success, failed, skipped, gemini_fallback,
      fileLog, results, exitCode, batchPc,
      now, PIPELINE_AVAILABLE, documents_db, uploadDir, outputDir, tasks, uploadLog, deleted,
      restarted, lines, lineIdx, itemList, quantity, itemsOut>>

\* What the steps of one subsystem leave alone: the other subsystems.
valFrame == <<retryVars, phoneVars, resumeVars, parseVars, batchVars, backendVars, itemVars>>

retryFrame == <<valVars, phoneVars, resumeVars, parseVars, batchVars, backendVars, itemVars>>

phoneFrame == <<valVars, retryVars, resumeVars, parseVars, batchVars, backendVars, itemVars>>

resumeFrame == <<valVars, retryVars, phoneVars, parseVars, batchVars, backendVars, itemVars>>

parseFrame == <<valVars, retryVars, phoneVars, resumeVars, batchVars, backendVars, itemVars>>

batchFrame == <<valVars, retryVars, phoneVars, resumeVars, parseVars, backendVars, itemVars>>

backendFrame == <<valVars, retryVars, phoneVars, resumeVars, parseVars, batchVars, itemVars>>

itemsFrame == <<valVars, retryVars, phoneVars, resumeVars, parseVars, batchVars, backendVars>>

(***************************************************************************)
(* Python values.  A value is a record tagged with its Python type.  A     *)
(* str is a sequence of one-character strings, so that parsing and regex   *)
(* matching read characters.  A dict is a function whose domain is its set *)
(* of keys; the top-level `data` mapping is such a function.               *)
(***************************************************************************)
None == [t |-> "none"]

Num(n) == [t |-> "num", n |-> n]

Str(s) == [t |-> "str", s |-> s]

Bool(b) == [t |-> "bool", b |-> b]

List(xs) == [t |-> "list", xs |-> xs]

Dict(d) == [t |-> "dict", d |-> d]

EmptyDict == [k \in {} |-> None]

\* Marker used only while building an input mapping: the key is left out.
Absent == [t |-> "absent"]

\* The dict holding the non-Absent entries of raw.
MkDict(raw) == [k \in {g \in DOMAIN raw : raw[g] # Absent} |-> raw[k]]

\* Python truthiness, as tested by `not x`.
Truthy(v) ==
    CASE v.t = "none" -> FALSE
      [] v.t = "num"  -> v.n # 0
      [] v.t = "str"  -> v.s # <<>>
      [] v.t = "bool" -> v.b
      [] v.t = "list" -> v.xs # <<>>
      [] v.t = "dict" -> DOMAIN v.d # {}

\* The outcome of a call: a returned value or a raised exception.
Return(v) == [kind |-> "return", value |-> v, error |-> "", field |-> "", index |-> -1]

Raise(e, f, i) == [kind |-> "raise", value |-> EmptyDict, error |-> e, field |-> f, index |-> i]

NotCalled == [kind |-> "none", value |-> EmptyDict, error |-> "", field |-> "", index |-> -1]

Abs(x) == IF x < 0 THEN -x ELSE x

Digits == <<"0", "1", "2", "3", "4", "5", "6", "7", "8", "9">>

IsDigit(c) == \E d \in 1..10 : Digits[d] = c

DigitVal(c) == (CHOOSE d \in 1..10 : Digits[d] = c) - 1

RECURSIVE DigitsValue(_, _)
\* The number written by the digit characters s, continuing from acc.
DigitsValue(s, acc) ==
    IF s = <<>> THEN acc ELSE DigitsValue(Tail(s), acc * 10 + DigitVal(Head(s)))

AllDigits(s) == s # <<>> /\ \A i \in 1..Len(s) : IsDigit(s[i])

(***************************************************************************)
(* float(v), the builtin the discrepancy check applies to every price and  *)
(* to TotalAmount.  Numbers in the model are integers, which binary        *)
(* floating point holds exactly, so sums, differences and the comparison   *)
(* with 0.02 are computed below in exact arithmetic.  A str converts when  *)
(* it is an optionally signed decimal numeral; any other character (the    *)
(* model draws "$3.99") makes float raise ValueError.  None, lists and     *)
(* dicts make it raise TypeError.                                          *)
(***************************************************************************)
FloatOk(n) == [ok |-> TRUE, n |-> n, error |-> ""]

FloatErr(e) == [ok |-> FALSE, n |-> 0, error |-> e]

FloatOfStr(s) ==
    IF AllDigits(s) THEN FloatOk(DigitsValue(s, 0))
    ELSE IF s # <<>> /\ Head(s) \in {"-", "+"} /\ AllDigits(Tail(s))
         THEN FloatOk(IF Head(s) = "-" THEN -DigitsValue(Tail(s), 0)
                      ELSE DigitsValue(Tail(s), 0))
         ELSE FloatErr("ValueError")

FloatOf(v) ==
    CASE v.t = "num"  -> FloatOk(v.n)
      [] v.t = "bool" -> FloatOk(IF v.b THEN 1 ELSE 0)
      [] v.t = "str"  -> FloatOfStr(v.s)
      [] OTHER        -> FloatErr("TypeError")

(***************************************************************************)
(* config/doc_config.py: the schema of each document type, as written in   *)
(* the validators and repeated in DOCUMENT_CONFIGS.                        *)
(***************************************************************************)
Range(seq) == {seq[i] : i \in 1..Len(seq)}

Min(S) == CHOOSE x \in S : \A y \in S : x <= y

ResumeRequired == <<"FullName">>

ResumeOptional == <<"Email", "PhoneNumber", "Skills", "WorkExperience", "Education">>

LicenseRequired == <<"Name">>

LicenseOptional == <<"DateOfBirth", "LicenseNumber", "IssuingState", "ExpiryDate">>

ReceiptRequired == <<"StoreName", "TotalAmount", "LineItems">>

ReceiptOptional ==
    <<"StoreAddress", "StorePhone", "DateOfPurchase", "TransactionTime", "ReceiptID",
      "Subtotal", "Tax", "PaymentMethod", "CardLast4Digits", "DiscrepancyWarning">>

DOCUMENT_CONFIGS ==
    [resume  |-> [required_fields |-> ResumeRequired, optional_fields |-> ResumeOptional],
     license |-> [required_fields |-> LicenseRequired, optional_fields |-> LicenseOptional],
     receipt |-> [required_fields |-> ReceiptRequired, optional_fields |-> ReceiptOptional]]

\* The required-field test with its `is None` half forgotten.
IsMissingAbsentOnly(data, field) == field \notin DOMAIN data

\* `field not in data or data[field] is None`, the required-field test.
IsMissing(data, field) == field \notin DOMAIN data \/ data[field] = None

\* `field in data and data[field] is not None`, the optional-field test.
HasValue(data, field) == field \in DOMAIN data /\ data[field] # None

\* The positions, in the order the required-field loop visits them, of the
\* required fields that are missing; the loop raises at the first.
MissingRequired(data, required) ==
    {i \in 1..Len(required) : IsMissing(data, required[i])}

\* The two loops that build validated_data: required fields copied, optional
\* fields copied when present and not None and defaulted otherwise.
FillDefaults(data, required, optional, defaults) ==
    [field \in Range(required) \cup Range(optional) |->
        IF field \in Range(required) THEN data[field]
        ELSE IF HasValue(data, field) THEN data[field]
        ELSE defaults[field]]

\* The defaults with the empty lists forgotten.
ResumeDefaultNone(field) == None

ResumeDefault(field) ==
    IF field = "Skills" THEN List(<<>>)
    ELSE IF field \in {"WorkExperience", "Education"} THEN List(<<>>)
    ELSE None

validate_resume_output(data) ==
    IF MissingRequired(data, ResumeRequired) # {}
    THEN Raise("RequiredFieldMissing",
               ResumeRequired[Min(MissingRequired(data, ResumeRequired))], -1)
    ELSE Return(FillDefaults(data, ResumeRequired, ResumeOptional,
                        [field \in Range(ResumeOptional) |-> ResumeDefault(field)]))

LicenseDefault(field) == None

validate_license_output(data) ==
    IF MissingRequired(data, LicenseRequired) # {}
    THEN Raise("RequiredFieldMissing",
               LicenseRequired[Min(MissingRequired(data, LicenseRequired))], -1)
    ELSE Return(FillDefaults(data, LicenseRequired, LicenseOptional,
                        [field \in Range(LicenseOptional) |-> LicenseDefault(field)]))

ReceiptDefault(field) ==
    IF field = "LineItems" THEN List(<<>>)
    ELSE IF field = "DiscrepancyWarning" THEN Bool(FALSE)
    ELSE None

\* The three checks made on one element of LineItems, in order; "" when it
\* passes them all.
LineItemError(item) ==
    IF item.t # "dict" THEN "LineItemNotDict"
    ELSE IF "name" \notin DOMAIN item.d \/ ~Truthy(item.d["name"]) THEN "LineItemMissingName"
    ELSE IF "price" \notin DOMAIN item.d \/ item.d["price"] = None THEN "LineItemMissingPrice"
    ELSE ""

\* The positions of the elements the structure loop rejects.  The loop runs
\* only when LineItems is a list.
BadLineItems(lineItems) ==
    IF lineItems.t = "list"
    THEN {i \in 1..Len(lineItems.xs) : LineItemError(lineItems.xs[i]) # ""}
    ELSE {}

\* `for item in validated_data["LineItems"]`: a list yields its elements, a
\* str its characters, a dict its keys (key strings are held whole); any
\* other value is not iterable.
Iterate(v) ==
    CASE v.t = "list" -> [ok |-> TRUE, xs |-> v.xs, error |-> ""]
      [] v.t = "str"  -> [ok |-> TRUE, xs |-> [i \in 1..Len(v.s) |-> Str(<<v.s[i]>>)], error |-> ""]
      [] v.t = "dict" -> [ok |-> TRUE,
                         xs |-> IF DOMAIN v.d = {} THEN <<>>
                                ELSE <<Str(<<CHOOSE k \in DOMAIN v.d : TRUE>>)>>,
                         error |-> ""]
      [] OTHER        -> [ok |-> FALSE, xs |-> <<>>, error |-> "TypeError"]

RECURSIVE SumPrices(_, _)
\* sum(float(item.get("price", 0)) for item in ...): the first element that
\* has no get (not a dict) or whose price float() rejects raises.
SumPrices(xs, acc) ==
    IF xs = <<>> THEN FloatOk(acc)
    ELSE LET item == Head(xs) IN
         IF item.t # "dict" THEN FloatErr("AttributeError")
         ELSE LET p == FloatOf(IF "price" \in DOMAIN item.d THEN item.d["price"] ELSE Num(0)) IN
              IF ~p.ok THEN p ELSE SumPrices(Tail(xs), acc + p.n)

\* The 2% tolerance, 0.02 = TolerancePercent / 100.
TolerancePercent == 2

\* The comparison with a tolerance of 0.2 written for 0.02.
ExceedsToleranceTenfold(total_items_price, total_amount) ==
    Abs(total_items_price - total_amount) * 100 > 20 * total_amount

\* abs(total_items_price - total_amount) / total_amount > 0.02, for total_amount > 0.
ExceedsTolerance(total_items_price, total_amount) ==
    Abs(total_items_price - total_amount) * 100 > TolerancePercent * total_amount

\* The detector flagging at exactly 2% as well (>= for >).
DiscrepancyDetectedInclusive(total_items_price, total_amount) ==
    /\ total_amount > 0
    /\ Abs(total_items_price - total_amount) * 100 >= TolerancePercent * total_amount

\* The detector guarded by the items' sum instead of the total.
DiscrepancyDetectedSumGuard(total_items_price, total_amount) ==
    /\ total_items_price > 0
    /\ ExceedsTolerance(total_items_price, total_amount)

\* `if total_amount > 0:` and, inside it, the comparison with the tolerance.
DiscrepancyDetected(total_items_price, total_amount) ==
    /\ total_amount > 0
    /\ ExceedsTolerance(total_items_price, total_amount)

\* The body of the detector: sum the prices, convert the total, set the flag.
\* The sum is computed first, then the total; the first failure raises.
CheckDiscrepancy(validated_data) ==
    LET items == Iterate(validated_data["LineItems"])
        total_items_price == SumPrices(items.xs, 0)
        total_amount == FloatOf(validated_data["TotalAmount"])
    IN  IF ~items.ok THEN Raise(items.error, "", -1)
        ELSE IF ~total_items_price.ok THEN Raise(total_items_price.error, "", -1)
        ELSE IF ~total_amount.ok THEN Raise(total_amount.error, "", -1)
        ELSE IF DiscrepancyDetected(total_items_price.n, total_amount.n)
        THEN Return([validated_data EXCEPT !["DiscrepancyWarning"] = Bool(TRUE)])
        ELSE Return(validated_data)

validate_receipt_output(data) ==
    IF MissingRequired(data, ReceiptRequired) # {}
    THEN Raise("RequiredFieldMissing",
               ReceiptRequired[Min(MissingRequired(data, ReceiptRequired))], -1)
    ELSE IF BadLineItems(data["LineItems"]) # {}
    THEN LET i == Min(BadLineItems(data["LineItems"])) IN
         Raise(LineItemError(data["LineItems"].xs[i]), "", i - 1)
    ELSE CheckDiscrepancy(FillDefaults(data, ReceiptRequired, ReceiptOptional,
                        [field \in Range(ReceiptOptional) |-> ReceiptDefault(field)]))

(***************************************************************************)
(* The object `data` after a validator has run.  A validator writes only   *)
(* through the name validated_data, which `validated_data = {}` binds to a *)
(* new dict after the required-field and line-item checks; a write reaches *)
(* the caller's mapping only if the name is bound to that object.          *)
(***************************************************************************)
\* validated_data bound to the caller's mapping (`validated_data = data`).
AliasValidatedData(data) == [object |-> "data", d |-> data]

\* `validated_data = {}`
NewValidatedData(data) == [object |-> "new", d |-> EmptyDict]

\* The dict d after the item assignments that build `written`.
Overwrite(d, written) ==
    [k \in DOMAIN d \cup DOMAIN written |-> IF k \in DOMAIN written THEN written[k] ELSE d[k]]

StructureErrors ==
    {"RequiredFieldMissing", "LineItemNotDict", "LineItemMissingName", "LineItemMissingPrice"}

\* What the validator of doc_type has assigned through validated_data when
\* it ends with `out`: the returned record (defaults and flag included);
\* nothing when it raises in the checks made before the name is bound; the
\* record filled with defaults when the discrepancy check raises.
WrittenBy(doc_type, data, out) ==
    IF out.kind = "return" THEN out.value
    ELSE IF out.error \in StructureErrors THEN EmptyDict
    ELSE FillDefaults(data, ReceiptRequired, ReceiptOptional,
                      [field \in Range(ReceiptOptional) |-> ReceiptDefault(field)])

\* The caller's mapping as the call leaves it.
DataAfter(doc_type, data, out) ==
    LET validated_data == NewValidatedData(data) IN
    IF validated_data.object = "data" /\ ~(out.kind = "raise" /\ out.error \in StructureErrors)
    THEN Overwrite(validated_data.d, WrittenBy(doc_type, data, out))
    ELSE data

(***************************************************************************)
(* The input mappings the validators are called with: what a model         *)
(* response or a deterministic parser can hand over.  Every field may be   *)
(* absent, None, or hold a value.                                          *)
(***************************************************************************)
\* The longest LineItems list drawn.
MaxItems == 2

SomeText == Str(<<"J", "a", "n", "e">>)

ShopName == Str(<<"S", "h", "o", "p">>)

MilkName == Str(<<"M", "i", "l", "k">>)

DollarPrice == Str(<<"$", "3", ".", "9", "9">>)

\* Prices of well-formed items: with TotalAmount 100, two of them sum to 98,
\* 100, 101, 102 (within 2%, 98 and 102 on the boundary) or 103, 104 (beyond).
ItemPrices == {49, 51, 52}

FieldChoices(value) == {Absent, None, value}

ResumeInputs ==
    {MkDict([FullName |-> fn, Email |-> em, PhoneNumber |-> ph, Skills |-> sk,
             WorkExperience |-> we, Education |-> ed]) :
        fn \in FieldChoices(SomeText), em \in FieldChoices(SomeText),
        ph \in FieldChoices(SomeText),
        sk \in FieldChoices(List(<<SomeText>>)) \cup {List(<<>>)},
        we \in FieldChoices(List(<<Dict([Company |-> SomeText])>>)),
        ed \in FieldChoices(List(<<Dict([Institution |-> SomeText])>>))}

LicenseInputs ==
    {MkDict([Name |-> nm, DateOfBirth |-> db, LicenseNumber |-> ln, IssuingState |-> st,
             ExpiryDate |-> ex]) :
        nm \in FieldChoices(SomeText) \cup {Str(<<>>)}, db \in FieldChoices(SomeText),
        ln \in FieldChoices(SomeText), st \in FieldChoices(SomeText),
        ex \in FieldChoices(SomeText)}

LineItemValues ==
    {Str(<<"x">>),
     Dict(MkDict([name |-> Absent, price |-> Num(51)])),
     Dict([name |-> Str(<<>>), price |-> Num(51)]),
     Dict(MkDict([name |-> MilkName, price |-> Absent])),
     Dict([name |-> MilkName, price |-> None]),
     Dict([name |-> MilkName, price |-> DollarPrice]),
     Dict([name |-> MilkName, price |-> Str(<<"5", "1">>)])}
    \cup {Dict([name |-> MilkName, price |-> Num(p)]) : p \in ItemPrices}

LineItemsChoices ==
    {Absent, None, Str(<<>>), Str(<<"a", "b">>), Dict(EmptyDict), Dict([a |-> Num(1)]),
     Num(5)}
    \cup {List(xs) : xs \in UNION {[1..n -> LineItemValues] : n \in 0..MaxItems}}

TotalAmountChoices ==
    {Absent, None, Num(0), Num(-100), Num(100), Str(<<"1", "0", "0">>), DollarPrice}

DiscrepancyWarningChoices == {Absent, None, Bool(FALSE), Bool(TRUE)}

\* The nine optional receipt fields other than the flag: pattern p leaves the
\* i-th absent, None or set, in rotation, so that each field takes each of
\* the three forms.
OtherOptional(i, p) ==
    CASE (i + p) % 3 = 0 -> Absent
      [] (i + p) % 3 = 1 -> None
      [] OTHER           -> SomeText

MkReceipt(sn, ta, li, dw, p) ==
    MkDict([f \in Range(ReceiptRequired) \cup Range(ReceiptOptional) |->
        CASE f = "StoreName"          -> sn
          [] f = "TotalAmount"        -> ta
          [] f = "LineItems"          -> li
          [] f = "DiscrepancyWarning" -> dw
          [] OTHER -> OtherOptional(CHOOSE i \in 1..Len(ReceiptOptional) : ReceiptOptional[i] = f, p)])

(***************************************************************************)
(* The validators' specification: an input mapping is drawn, the validator *)
(* that DOCUMENT_CONFIGS registers for the document type is called once.   *)
(***************************************************************************)
ValInit ==
    /\ vPc = "call"
    /\ vOut = NotCalled
    /\ \/ vDocType = "resume" /\ vData \in ResumeInputs
       \/ vDocType = "license" /\ vData \in LicenseInputs
       \/ /\ vDocType = "receipt"
          /\ \E sn \in FieldChoices(ShopName), ta \in TotalAmountChoices,
                li \in LineItemsChoices, dw \in DiscrepancyWarningChoices, p \in 0..2 :
                vData = MkReceipt(sn, ta, li, dw, p)

ValIdle == vPc = "idle" /\ vOut = NotCalled /\ vDocType = "" /\ vData = EmptyDict

ValidateResume ==
    /\ vPc = "call" /\ vDocType = "resume"
    /\ vOut' = validate_resume_output(vData)
    /\ vData' = DataAfter(vDocType, vData, validate_resume_output(vData))
    /\ vPc' = "done"
    /\ UNCHANGED <<vDocType, valFrame>>

ValidateLicense ==
    /\ vPc = "call" /\ vDocType = "license"
    /\ vOut' = validate_license_output(vData)
    /\ vData' = DataAfter(vDocType, vData, validate_license_output(vData))
    /\ vPc' = "done"
    /\ UNCHANGED <<vDocType, valFrame>>

ValidateReceipt ==
    /\ vPc = "call" /\ vDocType = "receipt"
    /\ vOut' = validate_receipt_output(vData)
    /\ vData' = DataAfter(vDocType, vData, validate_receipt_output(vData))
    /\ vPc' = "done"
    /\ UNCHANGED <<vDocType, valFrame>>

ValNext == ValidateResume \/ ValidateLicense \/ ValidateReceipt

(***************************************************************************)
(* Properties of the validators (specification SpecValidate).              *)
(*                                                                         *)
(* The properties read the input vData and the outcome vOut.  What they    *)
(* say of the line-item sum and of the tolerance is written out here, not  *)
(* taken from the validator's operators.                                   *)
(***************************************************************************)
Returned(docType) == vPc = "done" /\ vDocType = docType /\ vOut.kind = "return"

\* The input's LineItems as a sequence of items (a record is returned for a
\* LineItems that is no list only when iterating it yields nothing).
InputItems ==
    IF vData["LineItems"].t = "list" THEN vData["LineItems"].xs ELSE <<>>

RECURSIVE PriceSum(_)
PriceSum(xs) ==
    IF xs = <<>> THEN 0 ELSE FloatOf(Head(xs).d["price"]).n + PriceSum(Tail(xs))

InputTotal == FloatOf(vData["TotalAmount"]).n

\* |sum - total| / total > 0.02, i.e. 50 * |sum - total| > total, for total > 0.
InputDeviates == 50 * Abs(PriceSum(InputItems) - InputTotal) > InputTotal

\* The flag the input carried, False when it carried none or None.
InputFlagOrDefault ==
    IF "DiscrepancyWarning" \in DOMAIN vData /\ vData["DiscrepancyWarning"] # None
    THEN vData["DiscrepancyWarning"]
    ELSE Bool(FALSE)

\* C1: every accepted receipt whose line-item sum deviates by more than 2%
\* from a positive TotalAmount is returned with DiscrepancyWarning = true,
\* whatever flag (absent, null, false, true) the input carried.
C1_DeviationFlagged ==
    (Returned("receipt") /\ InputTotal > 0 /\ InputDeviates)
        => vOut.value["DiscrepancyWarning"] = Bool(TRUE)

\* C1 witness: an input carrying DiscrepancyWarning = false whose two items
\* sum to 103 against a total of 100 comes back flagged.
C1_Witness ==
    /\ Returned("receipt") /\ InputTotal = 100 /\ PriceSum(InputItems) = 103
    /\ "DiscrepancyWarning" \in DOMAIN vData /\ vData["DiscrepancyWarning"] = Bool(FALSE)
    /\ vOut.value["DiscrepancyWarning"] = Bool(TRUE)

\* C2 as claimed: every accepted receipt whose line-item sum is within 2% of
\* a positive TotalAmount is returned with DiscrepancyWarning = false, also
\* when the input already carried a flag.
C2_Original ==
    (Returned("receipt") /\ InputTotal > 0 /\ ~InputDeviates)
        => vOut.value["DiscrepancyWarning"] = Bool(FALSE)

\* C2 amended: for such a receipt the returned DiscrepancyWarning is the
\* non-null flag of the input when it carried one and false otherwise; so it
\* is false whenever the input's flag is absent, null or false.
C2_WithinToleranceKeepsFlag ==
    (Returned("receipt") /\ InputTotal > 0 /\ ~InputDeviates)
        => vOut.value["DiscrepancyWarning"] = InputFlagOrDefault

\* C2 witness: items summing to 102 against a total of 100 (exactly 2%), no
\* flag in the input, returned unflagged.
C2_Witness ==
    /\ Returned("receipt") /\ InputTotal = 100 /\ PriceSum(InputItems) = 102
    /\ "DiscrepancyWarning" \notin DOMAIN vData
    /\ vOut.value["DiscrepancyWarning"] = Bool(FALSE)

\* C3: when TotalAmount is not positive the discrepancy computation is
\* skipped: the returned flag is the input's non-null flag, or false, whatever
\* the line-item prices are.
C3_NonPositiveTotalSkips ==
    (Returned("receipt") /\ InputTotal <= 0)
        => vOut.value["DiscrepancyWarning"] = InputFlagOrDefault

\* C3 witness: TotalAmount 0, one item priced 49, no flag in the input,
\* returned unflagged.
C3_Witness ==
    /\ Returned("receipt") /\ InputTotal = 0 /\ PriceSum(InputItems) = 49
    /\ "DiscrepancyWarning" \notin DOMAIN vData
    /\ vOut.value["DiscrepancyWarning"] = Bool(FALSE)

RequiredOf(docType) == Range(DOCUMENT_CONFIGS[docType].required_fields)

OptionalOf(docType) == Range(DOCUMENT_CONFIGS[docType].optional_fields)

\* Some required field of the input is absent or null.
InputLacksRequired ==
    \E f \in RequiredOf(vDocType) : f \notin DOMAIN vData \/ vData[f] = None

OutHasRequired ==
    \A f \in RequiredOf(vDocType) : f \in DOMAIN vOut.value /\ vOut.value[f] # None

RaisedRequired == vOut.kind = "raise" /\ vOut.error = "RequiredFieldMissing"

\* C4 as claimed: the validator either raises the required-field error or
\* returns a record holding every required field non-null, and it raises
\* exactly when a required field is absent or null.
C4_Original ==
    vPc = "done" =>
        /\ RaisedRequired \/ (vOut.kind = "return" /\ OutHasRequired)
        /\ (vOut.kind = "raise") <=> InputLacksRequired

\* C4 amended: every returned record holds every required field non-null;
\* the required-field error is raised exactly when a required field is absent
\* or null; the resume and license validators have no other outcome, while
\* the receipt validator can also raise on an input holding every required
\* field (a malformed line item, a LineItems that cannot be summed, a price
\* or total that float() rejects).
C4_RequiredFields ==
    vPc = "done" =>
        /\ vOut.kind \in {"return", "raise"}
        /\ vOut.kind = "return" => OutHasRequired
        /\ RaisedRequired <=> InputLacksRequired
        /\ RaisedRequired => IsMissing(vData, vOut.field)
        /\ vDocType \in {"resume", "license"} => (vOut.kind = "return" \/ RaisedRequired)

\* C4 witness: a receipt without StoreName is refused with the
\* required-field error naming StoreName.
C4_Witness ==
    /\ vPc = "done" /\ vDocType = "receipt" /\ "StoreName" \notin DOMAIN vData
    /\ RaisedRequired /\ vOut.field = "StoreName"

\* The default C5 states for an optional field.
StatedDefault(f) ==
    IF f \in {"Skills", "WorkExperience", "Education"} THEN List(<<>>)
    ELSE IF f = "DiscrepancyWarning" THEN Bool(FALSE)
    ELSE None

RetainedOrDefault(f) ==
    IF f \in DOMAIN vData /\ vData[f] # None
    THEN vOut.value[f] = vData[f]
    ELSE vOut.value[f] = StatedDefault(f)

\* C5 as claimed: a returned record has exactly the declared keys, each
\* optional field retained when present and non-null and defaulted otherwise.
C5_Original ==
    (vPc = "done" /\ vOut.kind = "return") =>
        /\ DOMAIN vOut.value = RequiredOf(vDocType) \cup OptionalOf(vDocType)
        /\ \A f \in OptionalOf(vDocType) : RetainedOrDefault(f)

\* C5 amended: as claimed, except for a receipt's DiscrepancyWarning, which is
\* true when TotalAmount > 0 and the line-item sum deviates from it by more
\* than 2%, and retained or defaulted otherwise.
C5_DeclaredKeys ==
    (vPc = "done" /\ vOut.kind = "return") =>
        /\ DOMAIN vOut.value = RequiredOf(vDocType) \cup OptionalOf(vDocType)
        /\ \A f \in OptionalOf(vDocType) :
              IF vDocType = "receipt" /\ f = "DiscrepancyWarning"
                 /\ InputTotal > 0 /\ InputDeviates
              THEN vOut.value[f] = Bool(TRUE)
              ELSE RetainedOrDefault(f)

\* C5 witness: a resume without Skills and with a null Email and a PhoneNumber
\* comes back with Skills = [], Email = null and its PhoneNumber.
C5_Witness ==
    /\ Returned("resume")
    /\ "Skills" \notin DOMAIN vData /\ vOut.value["Skills"] = List(<<>>)
    /\ "Email" \in DOMAIN vData /\ vData["Email"] = None /\ vOut.value["Email"] = None
    /\ "PhoneNumber" \in DOMAIN vData /\ vOut.value["PhoneNumber"] = SomeText

WellFormedItem(item) ==
    /\ item.t = "dict"
    /\ "name" \in DOMAIN item.d /\ Truthy(item.d["name"])
    /\ "price" \in DOMAIN item.d /\ item.d["price"] # None

\* C6: the receipt validator returns a record only if LineItems is a list
\* whose every element is a mapping with a non-empty name and a non-null
\* price.
C6_LineItemsWellFormed ==
    Returned("receipt") =>
        /\ vData["LineItems"].t = "list"
        /\ \A i \in 1..Len(vData["LineItems"].xs) : WellFormedItem(vData["LineItems"].xs[i])

(***************************************************************************)
(* llm/gemini_client.py: extract_fields_from_text, the model extractor     *)
(* with its retry loop.  One step per blocking operation: the entry        *)
(* checks, each call of _call_gemini_api with the checks made on its       *)
(* response, each time.sleep(1).                                           *)
(***************************************************************************)
EXPECTED_FIELDS ==
    [license |-> {"Name", "DateOfBirth", "LicenseNumber", "IssuingState", "ExpiryDate"},
     receipt |-> {"MerchantName", "TotalAmount", "DateOfPurchase", "Items", "PaymentMethod"}]

MoreRetries == 2 + 1

max_retries == 2

\* The argument of time.sleep, in seconds.
BackoffSeconds == 1

\* What one call of _call_gemini_api can produce: an exception (no library,
\* no API key, no prompt, an API error, a response that is not JSON), or the
\* parsed JSON value, which may be no dict, a dict lacking an expected key,
\* or a dict holding them all (the tag tells responses apart).
ApiRaised == [raised |-> TRUE, value |-> None]

ApiValue(v) == [raised |-> FALSE, value |-> v]

ResponseTags == {"a", "b"}

ApiResponses(doc_type) ==
    {ApiRaised, ApiValue(List(<<>>)),
     ApiValue(Dict([k \in EXPECTED_FIELDS[doc_type] \ {"Name", "Items"} |-> None]))}
    \cup {ApiValue(Dict([k \in EXPECTED_FIELDS[doc_type] |-> Str(<<tag>>)])) : tag \in ResponseTags}
    \cup {ApiValue(Dict([k \in EXPECTED_FIELDS[doc_type] \cup {"Extra"} |-> Str(<<"a">>)]))}

\* The checks of the try block on extracted_data: it is a dict and no
\* expected key is missing from it.
ResponseAcceptedAnyDict(response, expected_keys) ==
    ~response.raised /\ response.value.t = "dict"

ResponseAccepted(response, expected_keys) ==
    /\ ~response.raised
    /\ response.value.t = "dict"
    /\ expected_keys \ DOMAIN response.value.d = {}

CallEvent(response) == [ev |-> "call", response |-> response, secs |-> 0]

SleepEvent(secs) == [ev |-> "sleep", response |-> ApiRaised, secs |-> secs]

RetryInit ==
    /\ rRetryTest \in BOOLEAN
    /\ rDocType \in {"license", "receipt", "resume", "passport"}
    /\ rPc = "entry"
    /\ attempt = 0
    /\ rLog = <<>>
    /\ rOut = NotCalled

RetryIdle ==
    /\ rRetryTest = FALSE /\ rDocType = "" /\ rPc = "idle"
    /\ attempt = 0 /\ rLog = <<>> /\ rOut = NotCalled

\* The checks before the loop: the simulated failure, then the doc_type.
EnterExtract ==
    /\ rPc = "entry"
    /\ IF rRetryTest
       THEN rOut' = Raise("ValueError:Simulated", "", -1) /\ rPc' = "raised"
       ELSE IF rDocType \notin DOMAIN EXPECTED_FIELDS
       THEN rOut' = Raise("ValueError:UnsupportedDocType", "", -1) /\ rPc' = "raised"
       ELSE rOut' = rOut /\ rPc' = "call"
    /\ UNCHANGED <<rRetryTest, rDocType, attempt, rLog, retryFrame>>

\* One iteration of the loop up to its return, its sleep or its final raise.
AttemptExtract ==
    /\ rPc = "call"
    /\ \E response \in ApiResponses(rDocType) :
          /\ rLog' = Append(rLog, CallEvent(response))
          /\ IF ResponseAccepted(response, EXPECTED_FIELDS[rDocType])
             THEN rOut' = Return(response.value.d) /\ rPc' = "returned"
             ELSE IF attempt < max_retries
             THEN rOut' = rOut /\ rPc' = "sleep"
             ELSE rOut' = Raise("ExtractionFailed", "", -1) /\ rPc' = "raised"
    /\ UNCHANGED <<rRetryTest, rDocType, attempt, retryFrame>>

\* time.sleep(1), then the next iteration.
SleepBeforeRetry ==
    /\ rPc = "sleep"
    /\ rLog' = Append(rLog, SleepEvent(BackoffSeconds))
    /\ attempt' = attempt + 1
    /\ rPc' = "call"
    /\ UNCHANGED <<rRetryTest, rDocType, rOut, retryFrame>>

RetryNext == EnterExtract \/ AttemptExtract \/ SleepBeforeRetry

(***************************************************************************)
(* Properties of the retry loop (specification SpecRetry).                 *)
(***************************************************************************)
CallIndices == {i \in 1..Len(rLog) : rLog[i].ev = "call"}

SleepIndices == {i \in 1..Len(rLog) : rLog[i].ev = "sleep"}

\* A failed attempt, as the claims put it: the call raised, or its response
\* is no mapping, or it lacks an expected key.
FailedAttempt(i) ==
    LET r == rLog[i].response IN
    \/ r.raised
    \/ r.value.t # "dict"
    \/ \E k \in EXPECTED_FIELDS[rDocType] : k \notin DOMAIN r.value.d

RetryEnded == rPc \in {"returned", "raised"}

RetryShape ==
    /\ Cardinality(CallIndices) <= 3
    /\ Cardinality(SleepIndices) <= 2
    /\ \A i \in SleepIndices :
          i > 1 /\ (i - 1) \in CallIndices /\ FailedAttempt(i - 1) /\ rLog[i].secs = 1
    /\ \A i \in CallIndices : i > 1 => (i - 1) \in SleepIndices
    /\ (Cardinality(CallIndices) = 3 /\ FailedAttempt(Len(rLog)))
          => (rPc = "raised" /\ rOut.kind = "raise" /\ rOut.error = "ExtractionFailed")

\* C7: one call of extract_fields_from_text makes at most 3 attempts; a
\* retry follows a failed attempt and exactly one 1-second wait; the third
\* failed attempt raises the terminal error; nothing happens after the call
\* has ended; and the call ends.
C7_BoundedRetries ==
    /\ []RetryShape
    /\ [][RetryEnded => (rLog' = rLog /\ rPc' = rPc /\ rOut' = rOut)]_vars
    /\ <>RetryEnded

\* C7 witness: three failed attempts, two waits between them, the terminal
\* error raised.
C7_Witness ==
    /\ rPc = "raised" /\ rOut.error = "ExtractionFailed"
    /\ Cardinality(CallIndices) = 3 /\ Cardinality(SleepIndices) = 2
    /\ \A i \in CallIndices : FailedAttempt(i)

\* C8: when the call returns, the attempts before the last all failed, the
\* last succeeded and its output is what is returned, and there was exactly
\* one 1-second wait per failed attempt (0, 1 or 2); a successful attempt is
\* always the last and is returned.
C8_FirstSuccessReturned ==
    /\ rPc = "returned" =>
          /\ rLog # <<>> /\ Len(rLog) \in CallIndices /\ ~FailedAttempt(Len(rLog))
          /\ rOut = Return(rLog[Len(rLog)].response.value.d)
          /\ \A i \in CallIndices : i < Len(rLog) => FailedAttempt(i)
          /\ Cardinality(SleepIndices) = Cardinality(CallIndices) - 1
          /\ Cardinality(SleepIndices) \in 0..2
          /\ \A i \in SleepIndices : rLog[i].secs = 1
    /\ \A i \in CallIndices :
          ~FailedAttempt(i) => (i = Len(rLog) /\ rPc = "returned")

\* C8 witness: fail (no mapping), fail (a key missing), succeed: the third
\* attempt's output is returned after exactly 2 waits.
C8_Witness ==
    /\ rDocType = "receipt" /\ rPc = "returned" /\ Len(rLog) = 5
    /\ ~rLog[1].response.raised /\ rLog[1].response.value.t = "list"
    /\ ~rLog[3].response.raised /\ rLog[3].response.value.t = "dict"
    /\ Cardinality(SleepIndices) = 2
    /\ rOut = Return(rLog[5].response.value.d)
    /\ rOut.value["TotalAmount"] = Str(<<"b">>)


(***************************************************************************)
(* extractors/resume.py: is_valid_phone_number.                            *)
(***************************************************************************)
\* re.search(r'\d+-\d+', s): somewhere a run of digits, a dash, a run of digits.
SearchDigitsDashDigits(s) ==
    \E j \in 1..Len(s) :
        /\ s[j] = "-"
        /\ \E i \in 1..(j - 1) : \A x \in i..(j - 1) : IsDigit(s[x])
        /\ \E k \in (j + 1)..Len(s) : \A x \in (j + 1)..k : IsDigit(s[x])

RECURSIVE FindAllDigits(_)
\* re.findall(r'\d', s): the digit characters of s, in order.
FindAllDigits(s) ==
    IF s = <<>> THEN <<>>
    ELSE IF IsDigit(Head(s)) THEN <<Head(s)>> \o FindAllDigits(Tail(s))
    ELSE FindAllDigits(Tail(s))

\* The least number of digits of a phone number.
MinPhoneDigits == 10

is_valid_phone_number_no_date_check(phone) ==
    IF ~Truthy(phone) THEN FALSE
    ELSE Len(FindAllDigits(phone.s)) >= MinPhoneDigits

is_valid_phone_number(phone) ==
    IF ~Truthy(phone) THEN FALSE
    ELSE IF SearchDigitsDashDigits(phone.s) THEN FALSE
    ELSE Len(FindAllDigits(phone.s)) >= MinPhoneDigits

\* The longest phone string drawn character by character.
MaxPhoneLen == 11

PhoneAlphabet == {"5", "-", " "}

\* The strings the specification names.
PhoneDashed == <<"5", "5", "5", "-", "1", "2", "3", "4", "5", "6", "7">>

PhoneDateLike == <<"0", "3", "-", "2", "0", "2", "0">>

PhoneSpaced == <<"+", "1", " ", "5", "5", "5", " ", "1", "2", "3", " ", "4", "5", "6", "7">>

PhoneInputs ==
    {None, Str(PhoneDashed), Str(PhoneDateLike), Str(PhoneSpaced)}
    \cup {Str(s) : s \in UNION {[1..n -> PhoneAlphabet] : n \in 0..MaxPhoneLen}}

PhoneInit == phPc = "call" /\ phInput \in PhoneInputs /\ phoneValid = FALSE

PhoneIdle == phPc = "idle" /\ phInput = None /\ phoneValid = FALSE

CheckPhone ==
    /\ phPc = "call"
    /\ phoneValid' = is_valid_phone_number(phInput)
    /\ phPc' = "done"
    /\ UNCHANGED <<phInput, phoneFrame>>

PhoneNext == CheckPhone

(***************************************************************************)
(* Properties of is_valid_phone_number (specification SpecPhone).          *)
(***************************************************************************)
\* A digit immediately followed by a dash and a digit.
HasDigitDashDigit(s) ==
    \E j \in 2..(Len(s) - 1) : IsDigit(s[j - 1]) /\ s[j] = "-" /\ IsDigit(s[j + 1])

DigitCount(s) == Cardinality({i \in 1..Len(s) : IsDigit(s[i])})

PlausiblePhone(p) ==
    p # None /\ p.s # <<>> /\ ~HasDigitDashDigit(p.s) /\ DigitCount(p.s) >= 10

\* C10: is_valid_phone_number(p) is true exactly when p is non-empty, holds
\* no digit immediately followed by a dash and a digit, and holds at least 10
\* digits; "555-1234567" and "03-2020" are invalid, "+1 555 123 4567" valid.
C10_PhoneValidity ==
    phPc = "done" =>
        /\ phoneValid <=> PlausiblePhone(phInput)
        /\ phInput \in {Str(PhoneDashed), Str(PhoneDateLike)} => ~phoneValid
        /\ phInput = Str(PhoneSpaced) => phoneValid

\* C10 witness: "+1 555 123 4567" has been checked and found valid.
C10_Witness == phPc = "done" /\ phInput = Str(PhoneSpaced) /\ phoneValid


(***************************************************************************)
(* extractors/resume.py: parse_resume, the resume cascade.  One step for   *)
(* the deterministic pass with the validity check that follows it, one for *)
(* the return without fallback, one for the model call with the merge.     *)
(***************************************************************************)
RESUME_FIELDS == <<"FullName", "Email", "PhoneNumber", "Skills", "WorkExperience", "Education">>

\* Phone strings the pattern of fast_regex_resume_parse can match: a digit
\* (or + and a digit), at least 7 digits, spaces, dashes or parentheses, a digit.
PhoneTenDigits == <<"5", "5", "5", "1", "2", "3", "4", "5", "6", "7">>

PhoneNineDigits == <<"5", "5", "5", " ", "1", "2", "3", " ", "4", "5", "6">>

PhoneDateRange ==
    <<"0", "1", "-", "2", "0", "1", "9", " ", "0", "3", "-", "2", "0", "2", "0">>

RegexPhones ==
    {Str(PhoneTenDigits), Str(PhoneNineDigits), Str(PhoneDateRange), Str(PhoneDashed),
     Str(PhoneSpaced)}

RegexText == Str(<<"r">>)

GeminiText == Str(<<"g">>)

\* What fast_regex_resume_parse can return: always the six keys; FullName,
\* Email and PhoneNumber None or the non-empty match; the three lists empty
\* or not.
RegexResults ==
    {[FullName |-> fn, Email |-> em, PhoneNumber |-> ph, Skills |-> sk,
      WorkExperience |-> we, Education |-> ed] :
        fn \in {None, RegexText}, em \in {None, RegexText},
        ph \in {None} \cup RegexPhones,
        sk \in {List(<<>>), List(<<RegexText>>)},
        we \in {List(<<>>), List(<<Dict([Company |-> RegexText, Role |-> None, Dates |-> None])>>)},
        ed \in {List(<<>>), List(<<Dict([Institution |-> RegexText, Degree |-> None,
                                         GraduationYear |-> None])>>)}}

\* What call_gemini_resume_extraction can return: the parsed JSON of the
\* response, which is a dict holding any of the fields (or other JSON, a
\* list here), and {} when the call or the parsing fails.
GeminiResults ==
    {List(<<>>)}
    \cup {Dict(MkDict([FullName |-> fn, Email |-> em, PhoneNumber |-> ph, Skills |-> sk,
                       WorkExperience |-> we, Education |-> ed])) :
            fn \in {Absent, GeminiText}, em \in {Absent, None, GeminiText},
            ph \in {Absent, Str(PhoneTenDigits), Str(PhoneDateLike)},
            sk \in {Absent, List(<<GeminiText>>)},
            we \in {Absent, List(<<>>)},
            ed \in {Absent, List(<<GeminiText>>)}}

\* The test of the first loop with the PhoneNumber branch forgotten.
IsMissingOrInvalidNoPhone(f, value) ==
    \/ ~Truthy(value)
    \/ value.t = "list" /\ ~Truthy(value)

\* The test of the first loop: the field goes into missing_or_invalid.
IsMissingOrInvalid(f, value) ==
    \/ ~Truthy(value)
    \/ value.t = "list" /\ ~Truthy(value)
    \/ f = "PhoneNumber" /\ ~is_valid_phone_number(value)

missing_or_invalid(res) ==
    SelectSeq(RESUME_FIELDS, LAMBDA f : IsMissingOrInvalid(f, res[f]))

\* The test of the merge loop: the field is taken from the model's result.
TakenFromGeminiAlways(f, value) == TRUE

TakenFromGemini(f, value) ==
    \/ ~Truthy(value)
    \/ value.t = "list" /\ ~Truthy(value)
    \/ f = "PhoneNumber" /\ ~is_valid_phone_number(value)

\* gemini_result.get(f)
DictGet(d, f) == IF f \in DOMAIN d THEN d[f] ELSE None

\* The merge loop over RESUME_FIELDS.
MergeResume(res, gem) ==
    [f \in DOMAIN res |->
        IF f \in Range(RESUME_FIELDS) /\ TakenFromGemini(f, res[f])
        THEN DictGet(gem, f) ELSE res[f]]

ResumeInit ==
    /\ resumePc = "start"
    /\ result = EmptyDict
    /\ regex_result = EmptyDict
    /\ gemini_result = None
    /\ geminiCalls = 0
    /\ resumeOut = NotCalled

ResumeIdle ==
    /\ resumePc = "idle" /\ result = EmptyDict /\ regex_result = EmptyDict
    /\ gemini_result = None /\ geminiCalls = 0 /\ resumeOut = NotCalled

\* result = fast_regex_resume_parse(text); regex_result keeps what the
\* deterministic pass returned.
RegexPass ==
    /\ resumePc = "start"
    /\ \E r \in RegexResults : result' = r /\ regex_result' = r
    /\ resumePc' = "checked"
    /\ UNCHANGED <<gemini_result, geminiCalls, resumeOut, resumeFrame>>

\* Nothing missing or invalid: the deterministic result is returned.
ReturnRegexResult ==
    /\ resumePc = "checked"
    /\ missing_or_invalid(result) = <<>>
    /\ resumeOut' = Return(result)
    /\ resumePc' = "done"
    /\ UNCHANGED <<result, regex_result, gemini_result, geminiCalls, resumeFrame>>

\* Something missing or invalid: the model is called and its result merged
\* in; a result that is no dict has no get and the merge raises.
GeminiFallback ==
    /\ resumePc = "checked"
    /\ missing_or_invalid(result) # <<>>
    /\ \E g \in GeminiResults :
          /\ gemini_result' = g
          /\ IF g.t = "dict"
             THEN /\ result' = MergeResume(result, g.d)
                  /\ resumeOut' = Return(MergeResume(result, g.d))
             ELSE /\ result' = result
                  /\ resumeOut' = Raise("AttributeError", "", -1)
    /\ geminiCalls' = geminiCalls + 1
    /\ resumePc' = "done"
    /\ UNCHANGED <<regex_result, resumeFrame>>

ResumeNext == RegexPass \/ ReturnRegexResult \/ GeminiFallback

(***************************************************************************)
(* Properties of parse_resume (specification SpecResume).                  *)
(***************************************************************************)
\* A valid deterministic value, as the claims put it: non-empty, and for
\* PhoneNumber a plausible phone number as well.
ValidDeterministic(f) ==
    LET v == regex_result[f] IN
    /\ v # None
    /\ v.t = "str" => v.s # <<>>
    /\ v.t = "list" => v.xs # <<>>
    /\ f = "PhoneNumber" => PlausiblePhone(v)

\* C9: in the record parse_resume returns, each of the six fields holds the
\* deterministic value when that value is valid, and otherwise the value the
\* model's result has for the field (None when it has none).
C9_MergeByField ==
    (resumePc = "done" /\ resumeOut.kind = "return") =>
        \A f \in Range(RESUME_FIELDS) :
            IF ValidDeterministic(f)
            THEN resumeOut.value[f] = regex_result[f]
            ELSE /\ gemini_result.t = "dict"
                 /\ resumeOut.value[f] =
                        (IF f \in DOMAIN gemini_result.d THEN gemini_result.d[f] ELSE None)

\* C9 witness: a valid deterministic FullName and a date-like PhoneNumber,
\* a model result with another FullName and a 10-digit PhoneNumber: the
\* merged record keeps the FullName and takes the model's PhoneNumber.
C9_Witness ==
    /\ resumePc = "done" /\ resumeOut.kind = "return"
    /\ regex_result["FullName"] = RegexText /\ regex_result["PhoneNumber"] = Str(PhoneDateRange)
    /\ gemini_result.t = "dict" /\ "FullName" \in DOMAIN gemini_result.d
    /\ gemini_result.d["FullName"] = GeminiText
    /\ resumeOut.value["FullName"] = RegexText
    /\ resumeOut.value["PhoneNumber"] = Str(PhoneTenDigits)


\* C11: parse_resume calls the model extractor at most once, and, when it
\* has ended, it has called it exactly when one of the six fields of the
\* deterministic pass is missing, empty or invalid; with all six valid the
\* model is not called and the deterministic record is returned unchanged.
C11_ModelCalledIffInvalid ==
    /\ geminiCalls <= 1
    /\ resumePc \in {"start", "checked"} => geminiCalls = 0
    /\ resumePc = "done" =>
          /\ geminiCalls = 1 <=> (\E f \in Range(RESUME_FIELDS) : ~ValidDeterministic(f))
          /\ geminiCalls = 0 => (gemini_result = None /\ resumeOut = Return(regex_result))

\* C11 witness: every deterministic field is valid but the PhoneNumber,
\* which is a date range; the model has been called once.
C11_Witness ==
    /\ resumePc = "done" /\ geminiCalls = 1
    /\ regex_result["PhoneNumber"] = Str(PhoneDateRange)
    /\ \A f \in Range(RESUME_FIELDS) \ {"PhoneNumber"} : ValidDeterministic(f)



(***************************************************************************)
(* parsers/receipt_parser.py: the deterministic receipt pass.  The text is *)
(* modelled by what it holds for each of the five field extractors: the    *)
(* value the extractor's patterns find in it, or NoMatch.  The dict        *)
(* display of parse_receipt calls the extractors in the order written, one *)
(* step each.                                                              *)
(***************************************************************************)
NoMatch == [t |-> "nomatch"]

ReceiptExtractionError == "ReceiptExtractionError"

\* A field extractor that returns None where it should raise.
ExtractFieldOrNone(text, key) ==
    Return(IF text[key] = NoMatch THEN None ELSE text[key])

\* Every field extractor ends in `return <the match>` or, with no pattern
\* matching, in `raise ReceiptExtractionError(...)`.
ExtractField(text, key) ==
    IF text[key] = NoMatch
    THEN Raise(ReceiptExtractionError, key, -1)
    ELSE Return(text[key])

extract_merchant_name(text) == ExtractField(text, "MerchantName")

extract_date(text) == ExtractField(text, "DateOfPurchase")

extract_total(text) == ExtractField(text, "TotalAmount")

extract_items(text) == ExtractField(text, "Items")

extract_payment_method(text) == ExtractField(text, "PaymentMethod")

\* The keys of the dict display, in the order their values are evaluated.
ParseOrder == <<"MerchantName", "DateOfPurchase", "TotalAmount", "Items", "PaymentMethod">>

ParseCall(text, key) ==
    CASE key = "MerchantName"   -> extract_merchant_name(text)
      [] key = "DateOfPurchase" -> extract_date(text)
      [] key = "TotalAmount"    -> extract_total(text)
      [] key = "Items"          -> extract_items(text)
      [] key = "PaymentMethod"  -> extract_payment_method(text)

\* parse_receipt as a function of the text: the first extractor that raises
\* ends the call with its ReceiptExtractionError (caught and re-raised);
\* otherwise the five values are returned.
parse_receipt(text) ==
    LET failing == {i \in 1..Len(ParseOrder) : ParseCall(text, ParseOrder[i]).kind = "raise"}
    IN  IF failing # {}
        THEN ParseCall(text, ParseOrder[Min(failing)])
        ELSE Return([key \in Range(ParseOrder) |-> ParseCall(text, key).value])

\* Values the extractors return: strings, and for the items a non-empty list
\* of dicts with name and price, and a quantity once a line with a
\* quantity has been seen.
MerchantFound == Str(<<"S", "H", "O", "P">>)

DateFound == Str(<<"0", "1", "/", "0", "2", "/", "2", "0", "2", "4">>)

TotalFound == Str(<<"6", ".", "4", "8">>)

PaymentFound == Str(<<"C", "a", "s", "h">>)

PriceFound == Str(<<"3", ".", "9", "9">>)

ItemWithQuantity == Dict([name |-> MilkName, price |-> PriceFound, quantity |-> Str(<<"2">>)])

ItemWithoutQuantity == Dict([name |-> MilkName, price |-> PriceFound])

ItemsFound ==
    {List(<<ItemWithQuantity>>), List(<<ItemWithoutQuantity>>),
     List(<<ItemWithoutQuantity, ItemWithQuantity>>)}

ReceiptTexts ==
    {[MerchantName |-> mn, DateOfPurchase |-> dp, TotalAmount |-> ta, Items |-> it,
      PaymentMethod |-> pm] :
        mn \in {NoMatch, MerchantFound}, dp \in {NoMatch, DateFound},
        ta \in {NoMatch, TotalFound}, it \in {NoMatch} \cup ItemsFound,
        pm \in {NoMatch, PaymentFound}}

ParseInit ==
    /\ parseText \in ReceiptTexts
    /\ parseFields = EmptyDict
    /\ parseOut = NotCalled
    /\ parsePc = 1

ParseIdle ==
    /\ parseText = EmptyDict /\ parseFields = EmptyDict
    /\ parseOut = NotCalled /\ parsePc = 0

\* One entry of the dict display: the extractor is called; its value is kept
\* for the dict, or its ReceiptExtractionError leaves parse_receipt.
ExtractStep(key) ==
    /\ parsePc \in 1..Len(ParseOrder)
    /\ ParseOrder[parsePc] = key
    /\ LET r == ParseCall(parseText, key) IN
       IF r.kind = "raise"
       THEN /\ parseOut' = r
            /\ parsePc' = -1
            /\ parseFields' = parseFields
       ELSE /\ parseFields' = [k \in DOMAIN parseFields \cup {key} |->
                                  IF k = key THEN r.value ELSE parseFields[k]]
            /\ parsePc' = parsePc + 1
            /\ parseOut' = parseOut
    /\ UNCHANGED <<parseText, parseFrame>>

ExtractMerchantName == ExtractStep("MerchantName")

ExtractDate == ExtractStep("DateOfPurchase")

ExtractTotal == ExtractStep("TotalAmount")

ExtractItems == ExtractStep("Items")

ExtractPaymentMethod == ExtractStep("PaymentMethod")

\* `return result`, the dict display complete.
ReturnParsed ==
    /\ parsePc = Len(ParseOrder) + 1
    /\ parseOut' = Return(parseFields)
    /\ parsePc' = -2
    /\ UNCHANGED <<parseText, parseFields, parseFrame>>

ParseNext ==
    \/ ExtractMerchantName \/ ExtractDate \/ ExtractTotal \/ ExtractItems
    \/ ExtractPaymentMethod \/ ReturnParsed

(***************************************************************************)
(* Properties of the deterministic receipt pass (specification SpecParse). *)
(***************************************************************************)
ParseEnded == parsePc < 0

AllExtractorsSucceed == \A key \in Range(ParseOrder) : parseText[key] # NoMatch

\* C12: parse_receipt returns a record only when all five extractors
\* succeed, and the record then holds exactly the five fields with the
\* extractors' values; when an extractor fails the call ends with
\* ReceiptExtractionError and nothing is returned, whatever was extracted
\* before the failure.
C12_AllOrNothing ==
    /\ parseOut.kind = "return" =>
          /\ AllExtractorsSucceed
          /\ DOMAIN parseOut.value = Range(ParseOrder)
          /\ \A key \in Range(ParseOrder) : parseOut.value[key] = parseText[key]
    /\ ParseEnded =>
          /\ parseOut = parse_receipt(parseText)
          /\ AllExtractorsSucceed => parseOut.kind = "return"
          /\ ~AllExtractorsSucceed =>
                (parseOut.kind = "raise" /\ parseOut.error = ReceiptExtractionError
                 /\ parseOut.value = EmptyDict)
    /\ ~ParseEnded => parseOut = NotCalled

\* C12 witness: merchant, date and total are extracted, the items are not:
\* the call has raised with three fields already extracted.
C12_Witness ==
    /\ ParseEnded /\ parseOut.kind = "raise" /\ parseOut.field = "Items"
    /\ DOMAIN parseFields = {"MerchantName", "DateOfPurchase", "TotalAmount"}



(***************************************************************************)
(* utils/validators.py: the validity gates the extractors and the batch    *)
(* drivers call.  They return a bool; `data` is any value.                 *)
(***************************************************************************)
\* EXPECTED_FIELDS of utils/validators.py: the keys are those of
\* gemini_client's EXPECTED_FIELDS, each with the type its value must have.
ExpectedType(key) == IF key = "Items" THEN "list" ELSE "str"

\* `data[key] is not None and not isinstance(data[key], expected_type)`
WrongType(value, expected_type) == value # None /\ value.t # expected_type

\* utils.validators.validate_license_output
validators_validate_license_output(data) ==
    /\ data.t = "dict"
    /\ EXPECTED_FIELDS["license"] \subseteq DOMAIN data.d
    /\ \A key \in EXPECTED_FIELDS["license"] : ~WrongType(data.d[key], ExpectedType(key))

required_item_keys == {"name", "quantity", "price"}

\* The gate with the check of each item's keys forgotten.
validators_validate_receipt_output_any_items(data) ==
    /\ data.t = "dict"
    /\ EXPECTED_FIELDS["receipt"] \subseteq DOMAIN data.d
    /\ \A key \in EXPECTED_FIELDS["receipt"] : ~WrongType(data.d[key], ExpectedType(key))

\* utils.validators.validate_receipt_output
validators_validate_receipt_output(data) ==
    /\ data.t = "dict"
    /\ EXPECTED_FIELDS["receipt"] \subseteq DOMAIN data.d
    /\ \A key \in EXPECTED_FIELDS["receipt"] : ~WrongType(data.d[key], ExpectedType(key))
    /\ data.d["Items"] # None =>
          \A i \in 1..Len(data.d["Items"].xs) :
              LET item == data.d["Items"].xs[i] IN
              /\ item.t = "dict"
              /\ required_item_keys \subseteq DOMAIN item.d

(***************************************************************************)
(* extractors/receipt.py and extractors/license.py: the model extractor    *)
(* with the gate behind it.  `extracted` is the outcome of                 *)
(* extract_fields_from_text(text, doc_type): the accepted response, or the *)
(* error raised before the loop or after the last retry.                   *)
(***************************************************************************)
\* extractors.receipt.parse_receipt: every failure leaves as
\* Exception("Field extraction failed: ...").
extractors_parse_receipt(extracted) ==
    IF extracted.kind = "raise" THEN Raise("FieldExtractionFailed", "", -1)
    ELSE IF ~validators_validate_receipt_output(Dict(extracted.value))
    THEN Raise("FieldExtractionFailed", "", -1)
    ELSE extracted

\* extractors.license.parse_license: the model extractor is the first thing
\* called; a failed gate is a ValueError.
parse_license(extracted) ==
    IF extracted.kind = "raise" THEN Raise("FieldExtractionFailed", "", -1)
    ELSE IF ~validators_validate_license_output(Dict(extracted.value))
    THEN Raise("ValueError", "", -1)
    ELSE extracted

\* llm.gemini_client.call_gemini_resume_extraction: the parsed response, and
\* {} when the call fails (no library, no key, an API error) or the response
\* is not JSON.
ApiFailed == [t |-> "failed"]

call_gemini_resume_extraction(api) == IF api = ApiFailed THEN Dict(EmptyDict) ELSE api

\* extractors.resume.parse_resume as a function of what the deterministic
\* pass returns and of what the model call produces if it is made.
parse_resume(regex, api) ==
    IF missing_or_invalid(regex) = <<>> THEN Return(regex)
    ELSE LET gem == call_gemini_resume_extraction(api) IN
         IF gem.t = "dict" THEN Return(MergeResume(regex, gem.d))
         ELSE Raise("AttributeError", "", -1)



(***************************************************************************)
(* pipeline/*_pipeline.py: what a batch driver does with one file.  The    *)
(* file's environment e says what the collaborators do for it: e.ocr is    *)
(* what text extraction yields ("raise", or the kind of text: "empty",     *)
(* "blank" for whitespace only, "text"), e.receipt what the text holds for *)
(* the receipt extractors, e.regex what fast_regex_resume_parse finds,     *)
(* e.extracted the outcome of extract_fields_from_text, e.api that of the  *)
(* resume model call, e.write whether the output file can be written.      *)
(* The result is the file's entry in the log: the calls made in order      *)
(* (trace), the terminal outcome, the record written, the outcome of the   *)
(* deterministic pass, whether gemini_fallback was incremented, and        *)
(* whether the model extractor was called and failed.                      *)
(***************************************************************************)
Entry(trace, outcome, record, det, model, counted, text) ==
    [trace |-> trace, outcome |-> outcome, record |-> record, det |-> det,
     model |-> model, counted |-> counted, text |-> text]

\* `if not validate_receipt_output(result): raise`, then the write of the
\* JSON file, then `success += 1`.
ValidateAndSave(trace, rec, det, model, counted, e) ==
    IF ~validators_validate_receipt_output(Dict(rec))
    THEN Entry(trace \o <<"validate">>, "failed", EmptyDict, det, model, counted, e.ocr)
    ELSE IF ~e.write
    THEN Entry(trace \o <<"validate", "write">>, "failed", EmptyDict, det, model, counted, e.ocr)
    ELSE Entry(trace \o <<"validate", "write">>, "written", rec, det, model, counted, e.ocr)

\* The receipt cascade without its deterministic pass.
ReceiptFileModelOnly(e) ==
    IF e.ocr = "raise"
    THEN Entry(<<"ocr">>, "failed", EmptyDict, NotCalled, NotCalled, FALSE, e.ocr)
    ELSE LET fallback == extractors_parse_receipt(e.extracted) IN
         IF fallback.kind = "raise"
         THEN Entry(<<"ocr", "model">>, "failed", EmptyDict, NotCalled, e.extracted, FALSE, e.ocr)
         ELSE ValidateAndSave(<<"ocr", "model">>, fallback.value, NotCalled, e.extracted, TRUE, e)

\* receipt_pipeline: the body of the loop of process_documents, which is
\* also the body of ReceiptPipeline.process_single_file.  The text is
\* extracted, the deterministic pass runs, its result goes through the
\* gate; on ReceiptExtractionError or a failed gate the model extractor is
\* called and gemini_fallback is incremented once it has returned.
ReceiptFile(e) ==
    IF e.ocr = "raise"
    THEN Entry(<<"ocr">>, "failed", EmptyDict, NotCalled, NotCalled, FALSE, e.ocr)
    ELSE LET regex_out == parse_receipt(e.receipt)
             fallback == extractors_parse_receipt(e.extracted)
         IN  IF regex_out.kind = "return"
                /\ validators_validate_receipt_output(Dict(regex_out.value))
             THEN ValidateAndSave(<<"ocr", "deterministic", "gate">>, regex_out.value,
                                  regex_out, NotCalled, FALSE, e)
             ELSE LET trace == IF regex_out.kind = "return"
                               THEN <<"ocr", "deterministic", "gate", "model">>
                               ELSE <<"ocr", "deterministic", "model">>
                  IN  IF fallback.kind = "raise"
                      THEN Entry(trace, "failed", EmptyDict, regex_out, e.extracted, FALSE, e.ocr)
                      ELSE ValidateAndSave(trace, fallback.value, regex_out, e.extracted, TRUE, e)

\* license_pipeline: the body of the loop.  parse_license calls the model
\* extractor; gemini_fallback is incremented once it has returned; then the
\* write.
LicenseFile(e) ==
    IF e.ocr = "raise"
    THEN Entry(<<"ocr">>, "failed", EmptyDict, NotCalled, NotCalled, FALSE, e.ocr)
    ELSE LET parsed_data == parse_license(e.extracted) IN
         IF parsed_data.kind = "raise"
         THEN Entry(<<"ocr", "model", "gate">>, "failed", EmptyDict, NotCalled, e.extracted,
                    FALSE, e.ocr)
         ELSE IF ~e.write
         THEN Entry(<<"ocr", "model", "gate", "write">>, "failed", EmptyDict, NotCalled,
                    e.extracted, TRUE, e.ocr)
         ELSE Entry(<<"ocr", "model", "gate", "write">>, "written", parsed_data.value,
                    NotCalled, e.extracted, TRUE, e.ocr)

\* resume_pipeline.extract_text_from_resume_file: a failure of the text
\* extraction is logged and "" returned.
extract_text_from_resume_file(ocr) == IF ocr = "raise" THEN "empty" ELSE ocr

\* The outcome of the resume model call as the log keeps it.
ApiOutcome(api) == IF api = ApiFailed THEN Raise("ApiFailed", "", -1) ELSE Return(api)

\* resume_pipeline: the body of the loop.  A text that is empty after
\* strip() is skipped; otherwise parse_resume runs, its result is written,
\* and processed and gemini_fallback are incremented.
ResumeFile(e) ==
    LET text == extract_text_from_resume_file(e.ocr) IN
    IF text \in {"empty", "blank"}
    THEN Entry(<<"ocr">>, "skipped", EmptyDict, NotCalled, NotCalled, FALSE, text)
    ELSE LET called == missing_or_invalid(e.regex) # <<>>
             parsed == parse_resume(e.regex, e.api)
             trace == IF called THEN <<"ocr", "deterministic", "model">>
                      ELSE <<"ocr", "deterministic">>
             model == IF called THEN ApiOutcome(e.api) ELSE NotCalled
         IN  IF parsed.kind = "raise"
             THEN Entry(trace, "failed", EmptyDict, Return(e.regex), model, FALSE, text)
             ELSE IF ~e.write
             THEN Entry(trace \o <<"write">>, "failed", EmptyDict, Return(e.regex), model,
                        FALSE, text)
             ELSE Entry(trace \o <<"write">>, "written", parsed.value, Return(e.regex), model,
                        TRUE, text)


(***************************************************************************)
(* cli.py process and the three process_documents: the files of the batch  *)
(* are processed in order, one step per file.                              *)
(***************************************************************************)
\* The most files a modelled input directory holds.
MaxFiles == 2

\* A text that is empty or blank holds nothing for any extractor.
NoText == [key \in Range(ParseOrder) |-> NoMatch]

FullText ==
    [MerchantName |-> MerchantFound, DateOfPurchase |-> DateFound, TotalAmount |-> TotalFound,
     Items |-> List(<<ItemWithQuantity>>), PaymentMethod |-> PaymentFound]

\* Receipt texts of a batch: everything found; an item line without a
\* quantity (the gate rejects the record); no merchant name found.
BatchReceiptTexts ==
    {FullText,
     [FullText EXCEPT !["Items"] = List(<<ItemWithoutQuantity>>)],
     [FullText EXCEPT !["MerchantName"] = NoMatch]}

\* What extract_fields_from_text ends with: its error (raised before the
\* loop or after the last retry), or an accepted response, which is a dict
\* holding every expected key.
ExtractedOutcomes(doc_type) ==
    {Raise("ExtractionFailed", "", -1),
     Return([k \in EXPECTED_FIELDS[doc_type] |-> None]),
     Return([k \in EXPECTED_FIELDS[doc_type] |-> Str(<<"a">>)])}
    \cup (IF doc_type = "receipt" THEN {Return(FullText)} ELSE {})

OcrOutcomes == {"raise", "empty", "blank", "text"}

AllValidRegex ==
    [FullName |-> RegexText, Email |-> RegexText, PhoneNumber |-> Str(PhoneTenDigits),
     Skills |-> List(<<RegexText>>),
     WorkExperience |-> List(<<Dict([Company |-> RegexText, Role |-> None, Dates |-> None])>>),
     Education |-> List(<<Dict([Institution |-> RegexText, Degree |-> None,
                               GraduationYear |-> None])>>)]

\* Deterministic resume results of a batch: all six fields valid; no
\* FullName; a date range taken for the PhoneNumber.
BatchRegexResults ==
    {AllValidRegex,
     [AllValidRegex EXCEPT !["FullName"] = None],
     [AllValidRegex EXCEPT !["PhoneNumber"] = Str(PhoneDateRange)]}

\* What the resume model call produces: a failure, a response with the
\* fields, a response without FullName, a response that is a JSON list.
BatchApiOutcomes ==
    {ApiFailed,
     Dict([FullName |-> GeminiText, PhoneNumber |-> Str(PhoneTenDigits)]),
     Dict([Email |-> GeminiText]),
     List(<<>>)}

FileEnv(ocr, receipt, regex, extracted, api, write) ==
    [ocr |-> ocr, receipt |-> receipt, regex |-> regex, extracted |-> extracted,
     api |-> api, write |-> write]

ReceiptEnvs ==
    {FileEnv(o, t, AllValidRegex, x, ApiFailed, w) :
        o \in OcrOutcomes, t \in BatchReceiptTexts \cup {NoText},
        x \in ExtractedOutcomes("receipt"), w \in BOOLEAN}

\* The environments in which the text agrees with what it holds.
ReceiptFileEnvs == {e \in ReceiptEnvs : (e.ocr = "text") <=> (e.receipt # NoText)}

LicenseFileEnvs ==
    {FileEnv(o, NoText, AllValidRegex, x, ApiFailed, w) :
        o \in OcrOutcomes, x \in ExtractedOutcomes("license"), w \in BOOLEAN}

ResumeFileEnvs ==
    {FileEnv(o, NoText, r, Raise("ExtractionFailed", "", -1), a, w) :
        o \in OcrOutcomes, r \in BatchRegexResults, a \in BatchApiOutcomes, w \in BOOLEAN}

SupportedModes == {"license", "receipt", "resume"}

BatchInit ==
    /\ \/ /\ batchPc = "cli"
          /\ mode \in SupportedModes \cup {"passport"}
          /\ test_mode \in BOOLEAN
          /\ dirFiles \in 0..MaxFiles
       \/ /\ batchPc = "single"
          /\ mode = "receipt" /\ test_mode = FALSE /\ dirFiles = 1
    /\ total = 0 /\ fileIdx = 0
    /\ success = 0 /\ failed = 0 /\ skipped = 0 /\ gemini_fallback = 0
    /\ fileLog = <<>>
    /\ results = EmptyDict
    /\ exitCode = -1

BatchIdle ==
    /\ batchPc = "idle" /\ mode = "" /\ test_mode = FALSE /\ dirFiles = 0
    /\ total = 0 /\ fileIdx = 0
    /\ success = 0 /\ failed = 0 /\ skipped = 0 /\ gemini_fallback = 0
    /\ fileLog = <<>> /\ results = EmptyDict /\ exitCode = -1

\* cli.process up to the loop of process_documents: an invalid mode or a
\* missing input directory exits with 1, and so does an exception of
\* process_documents (the output directory cannot be made, the input
\* directory cannot be listed); otherwise the files are listed, cut to the
\* first one in test mode, and the counters set to 0.
CliProcess ==
    /\ batchPc = "cli"
    /\ \E input_exists \in BOOLEAN, listed \in BOOLEAN :
          IF mode \notin SupportedModes \/ ~input_exists \/ ~listed
          THEN /\ exitCode' = 1
               /\ batchPc' = "exited"
               /\ UNCHANGED <<total, fileIdx>>
          ELSE /\ total' = IF test_mode /\ dirFiles > 0 THEN 1 ELSE dirFiles
               /\ fileIdx' = 1
               /\ batchPc' = "loop"
               /\ exitCode' = exitCode
    /\ UNCHANGED <<mode, test_mode, dirFiles, success, failed, skipped, gemini_fallback,
                   fileLog, results, batchFrame>>

\* The counters with the skipped files left uncounted.
CountWithoutSkipped(en) ==
    /\ fileLog' = Append(fileLog, en)
    /\ success' = success + (IF en.outcome = "written" THEN 1 ELSE 0)
    /\ failed' = failed + (IF en.outcome = "failed" THEN 1 ELSE 0)
    /\ skipped' = skipped
    /\ gemini_fallback' = gemini_fallback + (IF en.counted THEN 1 ELSE 0)
    /\ fileIdx' = fileIdx + 1
    /\ UNCHANGED <<mode, test_mode, dirFiles, total, results, exitCode, batchPc, batchFrame>>

\* The counters after one iteration of the loop.
Count(en) ==
    /\ fileLog' = Append(fileLog, en)
    /\ success' = success + (IF en.outcome = "written" THEN 1 ELSE 0)
    /\ failed' = failed + (IF en.outcome = "failed" THEN 1 ELSE 0)
    /\ skipped' = skipped + (IF en.outcome = "skipped" THEN 1 ELSE 0)
    /\ gemini_fallback' = gemini_fallback + (IF en.counted THEN 1 ELSE 0)
    /\ fileIdx' = fileIdx + 1
    /\ UNCHANGED <<mode, test_mode, dirFiles, total, results, exitCode, batchPc, batchFrame>>

ProcessReceiptFile ==
    /\ batchPc = "loop" /\ mode = "receipt" /\ fileIdx <= total
    /\ \E e \in ReceiptFileEnvs : Count(ReceiptFile(e))

ProcessLicenseFile ==
    /\ batchPc = "loop" /\ mode = "license" /\ fileIdx <= total
    /\ \E e \in LicenseFileEnvs : Count(LicenseFile(e))

ProcessResumeFile ==
    /\ batchPc = "loop" /\ mode = "resume" /\ fileIdx <= total
    /\ \E e \in ResumeFileEnvs : Count(ResumeFile(e))

\* The summary a driver returns; only the resume driver has "skipped".
Summary ==
    IF mode = "resume"
    THEN [total_files |-> total, success |-> success, failed |-> failed,
          skipped |-> skipped, gemini_fallback |-> gemini_fallback]
    ELSE [total_files |-> total, success |-> success, failed |-> failed,
          gemini_fallback |-> gemini_fallback]

\* The loop is over: process_documents returns its summary.
ReturnSummary ==
    /\ batchPc = "loop" /\ fileIdx > total
    /\ results' = Summary
    /\ batchPc' = "returned"
    /\ UNCHANGED <<mode, test_mode, dirFiles, total, fileIdx, success, failed, skipped,
                   gemini_fallback, fileLog, exitCode, batchFrame>>

\* cli.process after process_documents has returned: the results are
\* displayed and the command ends normally.
CliExit ==
    /\ batchPc = "returned"
    /\ exitCode' = 0
    /\ batchPc' = "exited"
    /\ UNCHANGED <<mode, test_mode, dirFiles, total, fileIdx, success, failed, skipped,
                   gemini_fallback, fileLog, results, batchFrame>>

\* ReceiptPipeline.process_single_file: the same cascade for one file; a
\* failure is logged and raised again.
ProcessSingleFile ==
    /\ batchPc = "single"
    /\ \E e \in ReceiptFileEnvs : fileLog' = <<ReceiptFile(e)>>
    /\ batchPc' = "single_done"
    /\ UNCHANGED <<mode, test_mode, dirFiles, total, fileIdx, success, failed, skipped,
                   gemini_fallback, results, exitCode, batchFrame>>

BatchNext ==
    \/ CliProcess \/ ProcessReceiptFile \/ ProcessLicenseFile \/ ProcessResumeFile
    \/ ReturnSummary \/ CliExit \/ ProcessSingleFile



(***************************************************************************)
(* Properties of the batch drivers and the CLI (specification SpecBatch).  *)
(***************************************************************************)
Entries == {fileLog[i] : i \in 1..Len(fileLog)}

\* The model extractor was called for the file.
ModelInvoked(en) == \E i \in 1..Len(en.trace) : en.trace[i] = "model"

\* The deterministic pass was run for the file.
DeterministicRun(en) == \E i \in 1..Len(en.trace) : en.trace[i] = "deterministic"

\* The deterministic receipt pass gave a record that passes the gate.
DetPassesGate(en) ==
    /\ en.det.kind = "return"
    /\ validators_validate_receipt_output(Dict(en.det.value))

\* The deterministic receipt pass raised ReceiptExtractionError, or gave a
\* record the gate rejects.
DetFailed(en) ==
    \/ en.det.kind = "raise" /\ en.det.error = ReceiptExtractionError
    \/ en.det.kind = "return" /\ ~validators_validate_receipt_output(Dict(en.det.value))

\* C13: in the receipt cascade, of the batch driver and of
\* process_single_file, the model extractor is called for a file exactly
\* when the deterministic pass raised ReceiptExtractionError or its result
\* failed the gate; a deterministic result that passes the gate is the
\* record written, with no model call; when the model is called the record
\* written is the model's result, whole.
C13_ReceiptCascade ==
    mode = "receipt" =>
        \A en \in Entries :
            /\ ModelInvoked(en) <=> DetFailed(en)
            /\ DetPassesGate(en) =>
                  (~ModelInvoked(en) /\ en.model = NotCalled
                   /\ (en.outcome = "written" => en.record = en.det.value))
            /\ (ModelInvoked(en) /\ en.outcome = "written") =>
                  (en.model.kind = "return" /\ en.record = en.model.value)

\* C13 witness: process_single_file on a receipt whose deterministic record
\* fails the gate (an item without quantity): the model's record is written.
C13_Witness ==
    /\ batchPc = "single_done"
    /\ \E en \in Entries :
          /\ en.det.kind = "return" /\ ~DetPassesGate(en)
          /\ ModelInvoked(en) /\ en.outcome = "written"
          /\ en.record = en.model.value /\ en.record # en.det.value



\* C14: for every document type and every file, the model extractor is
\* called only after the deterministic pass has been run for that file.
C14_DeterministicFirst ==
    \A en \in Entries :
        \A j \in 1..Len(en.trace) :
            en.trace[j] = "model" => \E i \in 1..(j - 1) : en.trace[i] = "deterministic"

\* C15: a file whose extracted text is empty or whitespace only fails at
\* once: the model extractor is not called for it and the driver counts it
\* as failed, in each of the three batch drivers.
C15_EmptyTextFails ==
    (mode \in SupportedModes /\ batchPc # "single_done") =>
        \A en \in Entries :
            en.text \in {"empty", "blank"} => (~ModelInvoked(en) /\ en.outcome = "failed")

\* The model extractor was called for the file and failed for good: it
\* raised after its retries, or the resume model call gave up.
ModelFailed(en) == ModelInvoked(en) /\ en.model.kind = "raise"

\* C16: a file for which the model extractor fails is recorded as failed,
\* nothing is written for it, and the driver goes on with the next file.
C16_ModelFailureFailsFile ==
    /\ \A en \in Entries :
          ModelFailed(en) => (en.outcome = "failed" /\ en.record = EmptyDict)
    /\ batchPc = "loop" => fileIdx = Len(fileLog) + 1



\* process_documents has returned its summary.
BatchReturned == batchPc = "returned" \/ (batchPc = "exited" /\ results # EmptyDict)

\* The summary's skipped count, 0 for a driver without one.
SummarySkipped == IF "skipped" \in DOMAIN results THEN results["skipped"] ELSE 0

\* Every file of the log has one terminal outcome and the counters count
\* the outcomes of the log.
OutcomesCounted ==
    /\ \A en \in Entries : en.outcome \in {"written", "failed", "skipped"}
    /\ success = Cardinality({i \in 1..Len(fileLog) : fileLog[i].outcome = "written"})
    /\ failed = Cardinality({i \in 1..Len(fileLog) : fileLog[i].outcome = "failed"})
    /\ skipped = Cardinality({i \in 1..Len(fileLog) : fileLog[i].outcome = "skipped"})

\* C17 as claimed: with N supported files in the input directory, on return
\* each of the N files has been attempted once and has one outcome, and
\* success + failed + skipped = total_files = N.
C17_Original ==
    BatchReturned =>
        /\ Len(fileLog) = dirFiles
        /\ OutcomesCounted
        /\ results["total_files"] = dirFiles
        /\ results["success"] + results["failed"] + SummarySkipped = results["total_files"]

\* The files a driver processes: all N, and the first one only in test mode.
SelectedFiles == IF test_mode /\ dirFiles > 0 THEN 1 ELSE dirFiles

\* C17 (amended): the files a driver selects (all N supported files, the
\* first one only in test mode) are attempted once each, in order, whatever
\* fails; each ends in one outcome, and on return
\* success + failed + skipped = total_files = the number of selected files.
C17_EveryFileOnce ==
    /\ batchPc = "loop" =>
          (fileIdx = Len(fileLog) + 1 /\ Len(fileLog) <= total /\ OutcomesCounted)
    /\ BatchReturned =>
          /\ Len(fileLog) = SelectedFiles
          /\ OutcomesCounted
          /\ results["total_files"] = SelectedFiles
          /\ results["success"] = success /\ results["failed"] = failed
          /\ SummarySkipped = skipped
          /\ results["success"] + results["failed"] + SummarySkipped = results["total_files"]

\* C17 witness: a batch of two files has returned; the first file failed
\* and the second was written.
C17_Witness ==
    /\ BatchReturned /\ results["total_files"] = 2
    /\ fileLog[1].outcome = "failed" /\ fileLog[2].outcome = "written"
    /\ results["success"] = 1 /\ results["failed"] = 1



\* C18: the summary's gemini_fallback is the number of files of the batch
\* for which the model extractor was called: a file processed by the
\* deterministic pass alone does not count, a file whose model call failed
\* does.
C18_FallbackCounted ==
    BatchReturned =>
        results["gemini_fallback"] =
            Cardinality({i \in 1..Len(fileLog) : ModelInvoked(fileLog[i])})

\* C19: the process command exits with 0 when every file of the batch
\* succeeded and with 1 when at least one file failed.
C19_ExitCode ==
    (batchPc = "exited" /\ results # EmptyDict) =>
        /\ results["failed"] = 0 => exitCode = 0
        /\ results["failed"] > 0 => exitCode = 1

\* The schema validator of the document type accepts the record.
SchemaAccepts(doc_type, record) ==
    CASE doc_type = "resume"  -> validate_resume_output(record).kind = "return"
      [] doc_type = "license" -> validate_license_output(record).kind = "return"
      [] doc_type = "receipt" -> validate_receipt_output(record).kind = "return"

\* C20: a file is written, and counted as success, only with a record the
\* schema validator of its document type accepts; a resume record whose
\* FullName is null is never written.
C20_WrittenIsValidated ==
    mode \in SupportedModes =>
        \A en \in Entries :
            en.outcome = "written" =>
                /\ SchemaAccepts(mode, en.record)
                /\ mode = "resume" => en.record["FullName"] # None



\* The amount a decimal numeral with two decimals writes, in cents; 0 for a
\* value that is no string.
Cents(v) == IF v.t = "str" THEN DigitsValue(SelectSeq(v.s, IsDigit), 0) ELSE 0

RECURSIVE ItemCents(_)
ItemCents(xs) ==
    IF xs = <<>> THEN 0 ELSE Cents(Head(xs).d["price"]) + ItemCents(Tail(xs))

\* The sum of the record's own item prices deviates by more than 2% from its
\* positive total.
RecordDeviates(rec) ==
    LET items == IF rec["Items"].t = "list" THEN rec["Items"].xs ELSE <<>>
        amount == Cents(rec["TotalAmount"])
    IN  amount > 0 /\ 50 * Abs(ItemCents(items) - amount) > amount

\* C21: every receipt record written by the receipt batch driver or by
\* process_single_file carries a DiscrepancyWarning, and its value says
\* whether the record's own line items deviate by more than 2% from its
\* positive total.
C21_WrittenCarriesDiscrepancyFlag ==
    mode = "receipt" =>
        \A en \in Entries :
            en.outcome = "written" =>
                /\ "DiscrepancyWarning" \in DOMAIN en.record
                /\ en.record["DiscrepancyWarning"] = Bool(RecordDeviates(en.record))

\* The record holds the five keys with the right types and every item is a
\* mapping with a non-empty name and a price; nothing is asked of quantity.
QuantityFreeValid(rec) ==
    /\ EXPECTED_FIELDS["receipt"] \subseteq DOMAIN rec
    /\ \A key \in EXPECTED_FIELDS["receipt"] : rec[key] # None /\ rec[key].t = ExpectedType(key)
    /\ \A i \in 1..Len(rec["Items"].xs) :
          LET item == rec["Items"].xs[i] IN
          /\ item.t = "dict"
          /\ "name" \in DOMAIN item.d /\ Truthy(item.d["name"])
          /\ "price" \in DOMAIN item.d /\ item.d["price"] # None

\* C22: a deterministic receipt record that holds the five keys with the
\* right types and whose every item has a non-empty name and a price passes
\* the gate also when an item has no quantity: the model extractor is not
\* called for the file and the deterministic record is the one written.
C22_QuantityOptional ==
    mode = "receipt" =>
        \A en \in Entries :
            (en.det.kind = "return" /\ QuantityFreeValid(en.det.value)) =>
                /\ validators_validate_receipt_output(Dict(en.det.value))
                /\ ~ModelInvoked(en)
                /\ en.outcome = "written" => en.record = en.det.value


\* C23: the schema validators leave their input alone: when
\* validate_resume_output, validate_license_output or
\* validate_receipt_output returns or raises, the mapping passed to it has
\* the keys and values it had before the call; the defaults and the
\* discrepancy flag are in the returned record only.
C23_InputUntouched == [][vPc = "call" => vData' = vData]_vars

\* C23 witness: a receipt passed without a DiscrepancyWarning key and
\* without a Tax key has been returned flagged and with Tax = null, and the
\* mapping passed still has neither key.
C23_Witness ==
    /\ Returned("receipt")
    /\ "DiscrepancyWarning" \notin DOMAIN vData /\ "Tax" \notin DOMAIN vData
    /\ vOut.value["DiscrepancyWarning"] = Bool(TRUE) /\ vOut.value["Tax"] = None

\* The structure checks of validate_receipt_output pass on the input: no
\* required field is absent or null, and LineItems is a list whose every
\* element is a mapping with a non-empty name and a non-null price.
PassesStructureChecks ==
    /\ ~InputLacksRequired
    /\ vData["LineItems"].t = "list"
    /\ \A i \in 1..Len(vData["LineItems"].xs) : WellFormedItem(vData["LineItems"].xs[i])

\* C24: the discrepancy check never fails a record: every receipt input
\* that passes the required-field and line-item structure checks, prices and
\* totals written as strings such as "$3.99" included, is returned, not
\* raised on.
C24_CheckNeverRaises ==
    (vPc = "done" /\ vDocType = "receipt" /\ PassesStructureChecks) => vOut.kind = "return"


UnsupportedRaised ==
    rPc = "raised" /\ rOut = Raise("ValueError:UnsupportedDocType", "", -1)

\* Nothing has been done for the call: no model call, no wait, no retry.
NothingAttempted == rLog = <<>> /\ attempt = 0

\* C25: extract_fields_from_text accepts license, receipt and resume, and
\* for any other doc_type raises the unsupported-document-type error before
\* any model call, wait or retry (texts holding RETRY_TEST, which raise the
\* simulated failure first, left aside).
C25_ThreeTypesAccepted ==
    (rPc # "entry" /\ ~rRetryTest) =>
        IF rDocType \in {"license", "receipt", "resume"}
        THEN ~UnsupportedRaised
        ELSE UnsupportedRaised /\ NothingAttempted

(***************************************************************************)
(* dociq-ui/backend/main.py: the HTTP backend.  Handlers and background    *)
(* tasks are coroutines of one event loop: a coroutine runs alone from one *)
(* await to the next, so a handler without an await, and each stretch of   *)
(* process_document_background between two awaits, is one step.  The       *)
(* pipeline's process_single_file runs in a worker thread                  *)
(* (asyncio.to_thread), concurrently with the event loop: reading the      *)
(* uploaded file and writing the output file are steps of their own.  Of a *)
(* record the model keeps the fields the handlers and the task branch on   *)
(* or report as state; uploadedAt, completionRate and extractedFields are  *)
(* left out.                                                               *)
(***************************************************************************)
\* The most seconds the clock advances.
MaxSeconds == 1

\* The most uploads handled.
MaxUploads == 2

\* os.getpid(): the same for every request the server process handles.
Pid == 1

\* generate_file_id: the time to the second and the process id.
generate_file_id(second) == [second |-> second, pid |-> Pid]

FileIds == {generate_file_id(second) : second \in 0..MaxSeconds}

Filenames == {"a.png", "b.png"}

\* The values of the form fields documentType and processingMode.
FormModes == {"receipt", "passport"}

\* UPLOAD_DIR / f"{file_id}_{file.filename}"
UploadPath(file_id, filename) == [file_id |-> file_id, filename |-> filename]

FailureMessage == Str(<<"e", "r", "r">>)

\* The record upload_file creates.
NewRecord(file_id, filename, documentType) ==
    [id |-> file_id, filename |-> filename, documentType |-> documentType,
     status |-> "pending", processedAt |-> None,
     originalFile |-> UploadPath(file_id, filename), progress |-> 0, message |-> None]

\* documents_db[file_id] = record
PutRecord(db, file_id, record) ==
    [k \in DOMAIN db \cup {file_id} |-> IF k = file_id THEN record ELSE db[k]]

\* del documents_db[document_id]
DelRecord(db, document_id) == [k \in DOMAIN db \ {document_id} |-> db[k]]

\* documents_db[file_id][field] = value, for each field of `fields`.
SetFields(db, file_id, fields) ==
    [db EXCEPT ![file_id] =
        [f \in DOMAIN db[file_id] |-> IF f \in DOMAIN fields THEN fields[f] ELSE db[file_id][f]]]

\* A background task: the arguments of process_document_background, where
\* the coroutine stands, and where the worker thread it awaits stands.
NewTask(file_id, file_path, processing_mode) ==
    [file_id |-> file_id, file_path |-> file_path, processing_mode |-> processing_mode,
     pc |-> "scheduled", thread |-> "none"]

\* The tasks that run once the handler has answered: those added to the
\* BackgroundTasks object FastAPI injects as a parameter of the handler
\* (upload_file).  A BackgroundTasks() the handler constructs itself
\* (process_document, retry_document) is a local object that nothing runs.
AfterResponse(background_tasks, task) ==
    IF background_tasks = "injected" THEN <<task>> ELSE <<>>

BackendInit ==
    /\ now = 0
    /\ PIPELINE_AVAILABLE \in BOOLEAN
    /\ documents_db = EmptyDict
    /\ uploadDir = {} /\ outputDir = {}
    /\ tasks = <<>>
    /\ uploadLog = <<>> /\ deleted = {} /\ restarted = {}

BackendIdle ==
    /\ now = 0 /\ PIPELINE_AVAILABLE = FALSE /\ documents_db = EmptyDict
    /\ uploadDir = {} /\ outputDir = {} /\ tasks = <<>>
    /\ uploadLog = <<>> /\ deleted = {} /\ restarted = {}

\* A second passes on the clock datetime.now() reads.
Tick ==
    /\ now < MaxSeconds
    /\ now' = now + 1
    /\ UNCHANGED <<PIPELINE_AVAILABLE, documents_db, uploadDir, outputDir, tasks, uploadLog,
                   deleted, restarted, backendFrame>>

\* POST /upload, from generate_file_id on: the file is saved, the record
\* created (replacing a record of the same id), the task added to the
\* injected BackgroundTasks, the id answered.
UploadFile ==
    /\ Len(uploadLog) < MaxUploads
    /\ \E filename \in Filenames, documentType \in FormModes, processingMode \in FormModes :
          LET file_id == generate_file_id(now)
              file_path == UploadPath(file_id, filename)
          IN  /\ uploadDir' = uploadDir \cup {file_path}
              /\ documents_db' =
                    PutRecord(documents_db, file_id, NewRecord(file_id, filename, documentType))
              /\ tasks' = tasks \o AfterResponse("injected",
                                                 NewTask(file_id, file_path, processingMode))
              /\ uploadLog' = Append(uploadLog, file_id)
              /\ deleted' = deleted \ {file_id}
    /\ UNCHANGED <<now, PIPELINE_AVAILABLE, outputDir, restarted, backendFrame>>

\* The except block of process_document_background: the record is marked
\* failed.  When the record is gone the lookup raises KeyError inside the
\* handler and the task ends with that exception.
HandleException(i) ==
    IF tasks[i].file_id \in DOMAIN documents_db
    THEN /\ documents_db' = SetFields(documents_db, tasks[i].file_id,
                                      [status |-> "failed", message |-> FailureMessage])
         /\ tasks' = [tasks EXCEPT ![i].pc = "done"]
    ELSE /\ documents_db' = documents_db
         /\ tasks' = [tasks EXCEPT ![i].pc = "crashed"]

\* process_document_background from its start to its first await: status
\* processing, progress 10; with the pipeline, an unknown mode raises
\* ValueError, otherwise progress 30 and the worker thread is started;
\* without the pipeline the task sleeps.
StartTask ==
    /\ \E i \in 1..Len(tasks) :
          /\ tasks[i].pc = "scheduled"
          /\ IF tasks[i].file_id \notin DOMAIN documents_db
             THEN HandleException(i)
             ELSE IF PIPELINE_AVAILABLE /\ tasks[i].processing_mode \notin SupportedModes
             THEN /\ documents_db' =
                        SetFields(documents_db, tasks[i].file_id,
                                  [status |-> "failed", progress |-> 10,
                                   message |-> FailureMessage])
                  /\ tasks' = [tasks EXCEPT ![i].pc = "done"]
             ELSE /\ documents_db' =
                        SetFields(documents_db, tasks[i].file_id,
                                  [status |-> "processing",
                                   progress |-> IF PIPELINE_AVAILABLE THEN 30 ELSE 10])
                  /\ tasks' = [tasks EXCEPT ![i].pc = IF PIPELINE_AVAILABLE THEN "thread"
                                                     ELSE "sleep2",
                                            ![i].thread = IF PIPELINE_AVAILABLE THEN "started"
                                                         ELSE "none"]
    /\ UNCHANGED <<now, PIPELINE_AVAILABLE, uploadDir, outputDir, uploadLog, deleted,
                   restarted, backendFrame>>

\* process_single_file in the worker thread, up to the text: the uploaded
\* file is read; a file that is gone, or one no OCR backend reads, raises.
ThreadRead ==
    /\ \E i \in 1..Len(tasks), readable \in BOOLEAN :
          /\ tasks[i].pc = "thread" /\ tasks[i].thread = "started"
          /\ tasks' = [tasks EXCEPT ![i].thread =
                          IF tasks[i].file_path \in uploadDir /\ readable THEN "read"
                          ELSE "raised"]
    /\ UNCHANGED <<now, PIPELINE_AVAILABLE, documents_db, uploadDir, outputDir, uploadLog,
                   deleted, restarted, backendFrame>>

\* process_single_file from the text on: the cascade and the gate, which
\* raise, or the write of OUTPUT_DIR / f"{file_id}.json".
ThreadWrite ==
    /\ \E i \in 1..Len(tasks), extracted \in BOOLEAN :
          /\ tasks[i].pc = "thread" /\ tasks[i].thread = "read"
          /\ IF extracted
             THEN /\ outputDir' = outputDir \cup {tasks[i].file_id}
                  /\ tasks' = [tasks EXCEPT ![i].thread = "returned"]
             ELSE /\ outputDir' = outputDir
                  /\ tasks' = [tasks EXCEPT ![i].thread = "raised"]
    /\ UNCHANGED <<now, PIPELINE_AVAILABLE, documents_db, uploadDir, uploadLog, deleted,
                   restarted, backendFrame>>

\* The task after `await asyncio.to_thread(...)`: the thread's exception
\* goes to the except block; otherwise progress 80 and 100, status
\* completed, processedAt.  The first assignment raises KeyError when the
\* record is gone.
ResumeTask ==
    /\ \E i \in 1..Len(tasks) :
          /\ tasks[i].pc = "thread" /\ tasks[i].thread \in {"raised", "returned"}
          /\ IF tasks[i].thread = "raised" \/ tasks[i].file_id \notin DOMAIN documents_db
             THEN HandleException(i)
             ELSE /\ documents_db' =
                        SetFields(documents_db, tasks[i].file_id,
                                  [progress |-> 100, status |-> "completed",
                                   processedAt |-> Num(now)])
                  /\ tasks' = [tasks EXCEPT ![i].pc = "done"]
    /\ UNCHANGED <<now, PIPELINE_AVAILABLE, uploadDir, outputDir, uploadLog, deleted,
                   restarted, backendFrame>>

\* Mock mode, after `await asyncio.sleep(2)`: progress 50.
MockHalfway ==
    /\ \E i \in 1..Len(tasks) :
          /\ tasks[i].pc = "sleep2"
          /\ IF tasks[i].file_id \notin DOMAIN documents_db
             THEN HandleException(i)
             ELSE /\ documents_db' = SetFields(documents_db, tasks[i].file_id, [progress |-> 50])
                  /\ tasks' = [tasks EXCEPT ![i].pc = "sleep1"]
    /\ UNCHANGED <<now, PIPELINE_AVAILABLE, uploadDir, outputDir, uploadLog, deleted,
                   restarted, backendFrame>>

\* Mock mode, after `await asyncio.sleep(1)`: progress 100, status
\* completed, processedAt.
MockComplete ==
    /\ \E i \in 1..Len(tasks) :
          /\ tasks[i].pc = "sleep1"
          /\ IF tasks[i].file_id \notin DOMAIN documents_db
             THEN HandleException(i)
             ELSE /\ documents_db' =
                        SetFields(documents_db, tasks[i].file_id,
                                  [progress |-> 100, status |-> "completed",
                                   processedAt |-> Num(now)])
                  /\ tasks' = [tasks EXCEPT ![i].pc = "done"]
    /\ UNCHANGED <<now, PIPELINE_AVAILABLE, uploadDir, outputDir, uploadLog, deleted,
                   restarted, backendFrame>>

\* DELETE /documents/{document_id}: the record is removed, then the
\* uploaded files of the id and the output file that exist now.
DeleteDocument ==
    /\ \E document_id \in DOMAIN documents_db :
          /\ documents_db' = DelRecord(documents_db, document_id)
          /\ uploadDir' = {path \in uploadDir : path.file_id # document_id}
          /\ outputDir' = outputDir \ {document_id}
          /\ deleted' = deleted \cup {document_id}
    /\ UNCHANGED <<now, PIPELINE_AVAILABLE, tasks, uploadLog, restarted, backendFrame>>

\* POST /process/{file_id}: refused for a record that is processing or
\* completed; otherwise the task is added to a BackgroundTasks() built in
\* the handler and success is answered.
ProcessDocument ==
    /\ \E file_id \in DOMAIN documents_db, request_mode \in FormModes :
          /\ documents_db[file_id].status \notin {"processing", "completed"}
          /\ tasks' = tasks \o AfterResponse("local",
                                             NewTask(file_id, documents_db[file_id].originalFile,
                                                     request_mode))
          /\ restarted' = restarted \cup {file_id}
    /\ UNCHANGED <<now, PIPELINE_AVAILABLE, documents_db, uploadDir, outputDir, uploadLog,
                   deleted, backendFrame>>

\* POST /retry/{file_id}: for a failed record only; status pending,
\* progress 0, no message; the task is added to a BackgroundTasks() built
\* in the handler and success is answered.
RetryDocument ==
    /\ \E file_id \in DOMAIN documents_db :
          /\ documents_db[file_id].status = "failed"
          /\ documents_db' = SetFields(documents_db, file_id,
                                       [status |-> "pending", progress |-> 0, message |-> None])
          /\ tasks' = tasks \o AfterResponse("local",
                                             NewTask(file_id, documents_db[file_id].originalFile,
                                                     documents_db[file_id].documentType))
          /\ restarted' = restarted \cup {file_id}
    /\ UNCHANGED <<now, PIPELINE_AVAILABLE, uploadDir, outputDir, uploadLog, deleted,
                   backendFrame>>

\* The steps of the background tasks and of their worker threads.
TaskNext ==
    StartTask \/ ThreadRead \/ ThreadWrite \/ ResumeTask \/ MockHalfway \/ MockComplete

BackendNext ==
    \/ Tick \/ UploadFile \/ DeleteDocument \/ ProcessDocument \/ RetryDocument
    \/ StartTask \/ ThreadRead \/ ThreadWrite \/ ResumeTask \/ MockHalfway \/ MockComplete

(***************************************************************************)
(* Properties of the HTTP backend (specification SpecBackend).             *)
(***************************************************************************)
\* The record of the id is gone, or its processing has ended.
Settled(file_id) ==
    \/ file_id \notin DOMAIN documents_db
    \/ documents_db[file_id].status \in {"completed", "failed"}

\* C26: once POST /retry/{file_id} (for a failed document) or POST
\* /process/{file_id} (for a pending one) has answered success, the
\* document's background processing runs: its status eventually is
\* completed or failed (or the document has been deleted).
C26_RestartRuns == \A file_id \in FileIds : (file_id \in restarted) ~> Settled(file_id)

\* C27: any two uploads get distinct file ids, two uploads of the same
\* second included.
C27_UniqueFileIds ==
    \A i, j \in 1..Len(uploadLog) : i # j => uploadLog[i] # uploadLog[j]

\* C28: a document removed by DELETE (its id not given to a later upload)
\* has no record in documents_db and no output file from then on, whatever
\* its background task was doing when the delete came.
C28_DeletedStaysDeleted ==
    \A document_id \in deleted :
        document_id \notin DOMAIN documents_db /\ document_id \notin outputDir

\* The moves C29 allows a record's status.
StatusMoves ==
    {<<"pending", "processing">>, <<"processing", "completed">>, <<"pending", "failed">>,
     <<"processing", "failed">>, <<"failed", "pending">>}

\* C29: a record's status only moves pending -> processing -> completed,
\* pending or processing -> failed, failed -> pending; completed is final;
\* and a completed record has progress 100 and a processedAt.  (A step of
\* upload_file, which creates the record, is not a move of its status.)
C29_StatusLifecycle ==
    /\ [][uploadLog' = uploadLog =>
            \A file_id \in DOMAIN documents_db \cap DOMAIN documents_db' :
                \/ documents_db'[file_id].status = documents_db[file_id].status
                \/ <<documents_db[file_id].status, documents_db'[file_id].status>>
                      \in StatusMoves]_vars
    /\ [](\A file_id \in DOMAIN documents_db :
            documents_db[file_id].status = "completed" =>
                (documents_db[file_id].progress = 100
                 /\ documents_db[file_id].processedAt # None))


(***************************************************************************)
(* parsers/receipt_parser.py: extract_items, line by line.  A line is a    *)
(* sequence of tokens separated by single spaces: words of capital         *)
(* letters, integers, prices (digits, a dot, two digits); line.strip() and *)
(* line.upper() leave such a line as it is.  On such lines the four        *)
(* regular expressions of item_patterns match by the kinds of the tokens.  *)
(* One step per iteration of `for line in lines`; `quantity` is the local  *)
(* variable of that name, Unbound until a line with a quantity assigns it. *)
(***************************************************************************)
\* The most lines of a text, and the most tokens of a line.
MaxLines == 2

MaxTokens == 3

WordTok(s) == [kind |-> "word", s |-> s]

IntTok(s) == [kind |-> "int", s |-> s]

PriceTok(s) == [kind |-> "price", s |-> s]

Tokens ==
    {WordTok(<<"M", "I", "L", "K">>), WordTok(<<"A">>), WordTok(<<"T", "O", "T", "A", "L">>),
     IntTok(<<"2">>), PriceTok(<<"3", ".", "9", "9">>)}

TextLines == UNION {[1..n -> Tokens] : n \in 1..MaxTokens}

RECURSIVE Join(_)
\* The characters of the tokens, a space between two tokens.
Join(tokens) ==
    IF tokens = <<>> THEN <<>>
    ELSE IF Len(tokens) = 1 THEN Head(tokens).s
    ELSE Head(tokens).s \o <<" ">> \o Join(Tail(tokens))

\* `sub in s`
Contains(s, sub) ==
    \E i \in 1..(Len(s) - Len(sub) + 1) : SubSeq(s, i, i + Len(sub) - 1) = sub

SkipWords ==
    {<<"T", "O", "T", "A", "L">>, <<"S", "U", "B", "T", "O", "T", "A", "L">>, <<"T", "A", "X">>,
     <<"C", "H", "A", "N", "G", "E">>, <<"C", "A", "S", "H">>, <<"C", "A", "R", "D">>,
     <<"R", "E", "C", "E", "I", "P", "T">>, <<"T", "H", "A", "N", "K">>}

\* The two `continue` tests at the head of the loop body.
SkipLine(line) ==
    \/ line = <<>> \/ Len(line) < 5
    \/ \E skip \in SkipWords : Contains(line, skip)

\* tokens[from..to] are words, at least one.
AreWords(tokens, from, to) ==
    from <= to /\ \A i \in from..to : tokens[i].kind = "word"

LastIsPrice(tokens) == tokens # <<>> /\ tokens[Len(tokens)].kind = "price"

\* match.groups() of re.search(item_patterns[p - 1], line), <<>> for no match:
\* 1 name and price, 2 quantity, name and price, 3 name, quantity and price,
\* 4 a name of 3 to 30 characters and a price.
Groups(p, tokens) ==
    LET n == Len(tokens) IN
    CASE p = 1 ->
           IF LastIsPrice(tokens) /\ AreWords(tokens, 1, n - 1)
           THEN <<Join(SubSeq(tokens, 1, n - 1)), tokens[n].s>> ELSE <<>>
      [] p = 2 ->
           IF LastIsPrice(tokens) /\ tokens[1].kind = "int" /\ AreWords(tokens, 2, n - 1)
           THEN <<tokens[1].s, Join(SubSeq(tokens, 2, n - 1)), tokens[n].s>> ELSE <<>>
      [] p = 3 ->
           IF LastIsPrice(tokens) /\ n >= 3 /\ tokens[n - 1].kind = "int"
              /\ AreWords(tokens, 1, n - 2)
           THEN <<Join(SubSeq(tokens, 1, n - 2)), tokens[n - 1].s, tokens[n].s>> ELSE <<>>
      [] OTHER ->
           IF LastIsPrice(tokens) /\ AreWords(tokens, 1, n - 1)
              /\ Len(Join(SubSeq(tokens, 1, n - 1))) \in 3..30
           THEN <<Join(SubSeq(tokens, 1, n - 1)), tokens[n].s>> ELSE <<>>

\* The local `quantity` before its first assignment.
Unbound == [t |-> "unbound"]

\* The item dict: name and price, and `if 'quantity' in locals()` the
\* value of the local `quantity`.
MkItem(item_name, price, qty) ==
    IF qty = Unbound
    THEN Dict([name |-> Str(item_name), price |-> Str(price)])
    ELSE Dict([name |-> Str(item_name), price |-> Str(price), quantity |-> qty])

RECURSIVE TryPatterns(_, _, _, _, _)
\* `for pattern in item_patterns`, from pattern p on: a match assigns the
\* locals from its groups (quantity only when there are three); a name of
\* at least 2 characters appends the item and breaks, a shorter one goes on
\* with the next pattern.  lineNo records the line the item was built from.
TryPatterns(p, tokens, qty, its, lineNo) ==
    IF p > 4 THEN [quantity |-> qty, items |-> its]
    ELSE LET g == Groups(p, tokens) IN
         IF g = <<>> THEN TryPatterns(p + 1, tokens, qty, its, lineNo)
         ELSE LET assigned == IF Len(g) = 2 THEN qty
                              ELSE IF AllDigits(g[1]) THEN Str(g[1]) ELSE Str(g[2])
                  item_name == IF Len(g) = 3 /\ AllDigits(g[1]) THEN g[2] ELSE g[1]
                  price == g[Len(g)]
              IN  IF Len(item_name) >= 2
                  THEN [quantity |-> assigned,
                        items |-> Append(its, [item |-> MkItem(item_name, price, assigned),
                                               line |-> lineNo])]
                  ELSE TryPatterns(p + 1, tokens, assigned, its, lineNo)

ItemsInit ==
    /\ lines \in UNION {[1..n -> TextLines] : n \in 0..MaxLines}
    /\ lineIdx = 1
    /\ itemList = <<>>
    /\ quantity = Unbound
    /\ itemsOut = NotCalled

ItemsIdle ==
    /\ lines = <<>> /\ lineIdx = 0 /\ itemList = <<>> /\ quantity = Unbound
    /\ itemsOut = NotCalled

\* One iteration of `for line in lines`.
ItemLine ==
    /\ lineIdx \in 1..Len(lines)
    /\ LET after == TryPatterns(1, lines[lineIdx], quantity, itemList, lineIdx) IN
       IF SkipLine(Join(lines[lineIdx]))
       THEN UNCHANGED <<quantity, itemList>>
       ELSE quantity' = after.quantity /\ itemList' = after.items
    /\ lineIdx' = lineIdx + 1
    /\ UNCHANGED <<lines, itemsOut, itemsFrame>>

\* After the loop: no item raises ReceiptExtractionError, otherwise the
\* items are returned.
ReturnItems ==
    /\ lineIdx = Len(lines) + 1
    /\ itemsOut = NotCalled
    /\ itemsOut' = IF itemList = <<>> THEN Raise(ReceiptExtractionError, "Items", -1)
                   ELSE Return(List([i \in 1..Len(itemList) |-> itemList[i].item]))
    /\ lineIdx' = lineIdx + 1
    /\ UNCHANGED <<lines, itemList, quantity, itemsFrame>>

ItemsNext == ItemLine \/ ReturnItems

(***************************************************************************)
(* Properties of extract_items (specification SpecItems).                  *)
(***************************************************************************)
\* The quantity written on the line: its integer token, if it has one.
LineQuantities(tokens) == {tokens[i].s : i \in {j \in 1..Len(tokens) : tokens[j].kind = "int"}}

\* C30: each item's quantity comes from the item's own line: an item built
\* from a name-and-price line has no quantity key, whatever lines came
\* before it, and an item built from a line with a quantity has that line's
\* quantity.
C30_QuantityFromOwnLine ==
    \A i \in 1..Len(itemList) :
        LET own == LineQuantities(lines[itemList[i].line])
            item == itemList[i].item.d
        IN  IF own = {} THEN "quantity" \notin DOMAIN item
            ELSE "quantity" \in DOMAIN item /\ item["quantity"].s \in own


(***************************************************************************)
(* Specifications.                                                         *)
(***************************************************************************)
ValSpecInit ==
    ValInit /\ RetryIdle /\ PhoneIdle /\ ResumeIdle /\ ParseIdle /\ BatchIdle /\ BackendIdle
    /\ ItemsIdle

SpecValidate == ValSpecInit /\ [][ValNext]_vars

RetrySpecInit ==
    RetryInit /\ ValIdle /\ PhoneIdle /\ ResumeIdle /\ ParseIdle /\ BatchIdle /\ BackendIdle
    /\ ItemsIdle

\* The extractor runs sequentially: a step that can be taken is taken (the
\* sleep ends, and a call of the model returns or raises).
SpecRetry == RetrySpecInit /\ [][RetryNext]_vars /\ WF_vars(RetryNext)

PhoneSpecInit ==
    PhoneInit /\ ValIdle /\ RetryIdle /\ ResumeIdle /\ ParseIdle /\ BatchIdle /\ BackendIdle
    /\ ItemsIdle

SpecPhone == PhoneSpecInit /\ [][PhoneNext]_vars

ResumeSpecInit ==
    ResumeInit /\ ValIdle /\ RetryIdle /\ PhoneIdle /\ ParseIdle /\ BatchIdle /\ BackendIdle
    /\ ItemsIdle

SpecResume == ResumeSpecInit /\ [][ResumeNext]_vars

ParseSpecInit ==
    ParseInit /\ ValIdle /\ RetryIdle /\ PhoneIdle /\ ResumeIdle /\ BatchIdle /\ BackendIdle
    /\ ItemsIdle

SpecParse == ParseSpecInit /\ [][ParseNext]_vars

BatchSpecInit ==
    BatchInit /\ ValIdle /\ RetryIdle /\ PhoneIdle /\ ResumeIdle /\ ParseIdle /\ BackendIdle
    /\ ItemsIdle

SpecBatch == BatchSpecInit /\ [][BatchNext]_vars

BackendSpecInit ==
    BackendInit /\ ValIdle /\ RetryIdle /\ PhoneIdle /\ ResumeIdle /\ ParseIdle /\ BatchIdle
    /\ ItemsIdle

\* The event loop runs every task it has been given and the worker threads
\* go on: a step of a task that can be taken is taken.  Requests and the
\* passing of time are under no such obligation.
SpecBackend == BackendSpecInit /\ [][BackendNext]_vars /\ WF_vars(TaskNext)

ItemsSpecInit ==
    ItemsInit /\ ValIdle /\ RetryIdle /\ PhoneIdle /\ ResumeIdle /\ ParseIdle /\ BatchIdle
    /\ BackendIdle

SpecItems == ItemsSpecInit /\ [][ItemsNext]_vars

====
